---- MODULE Spec2Model ----
(***************************************************************************)
(* Model of backend/server.py: the ConnectionManager registry, the         *)
(* websocket_endpoint connection handler and the HTTP operations.          *)
(*                                                                         *)
(* Scheduling.  The server is one asyncio event loop.  A task runs without *)
(* interruption until it awaits something that is not ready.  The registry *)
(* lock is never held across such an await, so `async with self.lock` is   *)
(* never contended and never suspends: every lock section is atomic with   *)
(* the code around it.  The suspension points are the transport awaits:    *)
(* accept, receive_text, send_text and close.  One step of the model is    *)
(* "an await completes, and the task runs to its next transport await".    *)
(* A send hands the frame to the transport when it is called (it fails at  *)
(* that moment if the connection is closed) and the task may then be       *)
(* suspended; other tasks run before the sender goes on.                   *)
(*                                                                         *)
(* Each task keeps its call stack `stk`: a sequence of frames, one per     *)
(* coroutine in progress, each with the label `pc` it continues at.        *)
(*                                                                         *)
(* Left out: wall-clock timestamps in messages ("ts"), the contents of the  *)
(* UDP discovery table discovered_devices and the /devices route that      *)
(* only reads.  Whether a device_id is in discovered_devices is an input   *)
(* of the /connect_device request, since only the UDP listener thread adds *)
(* keys.  last_seen is a logical clock of inbound frames.                  *)
(***************************************************************************)
EXTENDS Integers, Sequences, FiniteSets, TLC

\* ------------------------------------------------------------------ bounds
\* events of the environment: connections opened, frames received, HTTP
\* requests, connections closed by the peer
MaxEvents == 6

\* walls of a grid handed to the planner
MaxWalls == 4

\* ---------------------------------------------------------------- universe
None == "none"
\* the websocket objects (endpoints) that may connect, and the HTTP tasks
WS == {"w1", "w2", "w3"}
HTTP == {"h1"}
Tasks == WS \cup HTTP

\* ------------------------------------------------------------ python dicts
EmptyDict == << >>
Get(d, k, dflt) == IF k \in DOMAIN d THEN d[k] ELSE dflt
\* dict.update: keys of p overwrite keys of m
DictUpdate(m, p) ==
  [k \in (DOMAIN m) \cup (DOMAIN p) |-> IF k \in DOMAIN p THEN p[k] ELSE m[k]]
\* a or b, for values where only None (and "") is falsy
OrElse(a, b) == IF a # None /\ a # "" THEN a ELSE b

RECURSIVE Filter(_, _)
\* the subsequence of s whose elements are in the set keep
Filter(s, keep) ==
  IF s = << >> THEN << >>
  ELSE IF Head(s) \in keep THEN << Head(s) >> \o Filter(Tail(s), keep)
  ELSE Filter(Tail(s), keep)

Range(s) == { s[i] : i \in 1..Len(s) }

\* ----------------------------------------------------------------- messages
\* Outbound JSON objects; a field the object does not have is None (-1 for
\* the two counts).
M0 == [action |-> None, type |-> None, from |-> None, device_id |-> None,
       role |-> None, status |-> None, error |-> None, target |-> None,
       reached |-> 0 - 1, total |-> 0 - 1, payload |-> EmptyDict,
       waypoints |-> << >>, text |-> None]

\* Inbound frames.  json = FALSE is text that is not JSON; object = FALSE is
\* JSON that is not an object (a list, a string, a number), on which
\* `.get` raises AttributeError.  For a connect request, discovered says
\* whether device_id is a key of discovered_devices when the request arrives
\* (the UDP listener thread adds keys and nothing removes one), and sendto
\* whether the UDP datagram to the device can be sent.  route is the HTTP
\* route of a request whose body is arbitrary JSON and may have an action
\* of its own (POST /broadcast).
P0 == [json |-> TRUE, object |-> TRUE, action |-> None, type |-> None,
       target |-> None, device_id |-> None, role |-> None,
       payload |-> EmptyDict, discovered |-> FALSE, sendto |-> TRUE,
       route |-> None]

\* ------------------------------------------------- self.devices (the table)
\* The dict device_id -> info in insertion order, as a sequence of entries
\* with distinct device_id.
Has(devs, id) == \E i \in 1..Len(devs) : devs[i].device_id = id
Idx(devs, id) == CHOOSE i \in 1..Len(devs) : devs[i].device_id = id
Lookup(devs, id) == devs[Idx(devs, id)]
DeviceIds(devs) == { devs[i].device_id : i \in 1..Len(devs) }

\* a variant of DelWs that deletes nothing
DelWsNothing(devs, websocket) == devs

\* del self.devices[did] for every did whose info["ws"] is websocket
DelWs(devs, websocket) ==
  Filter(devs, { e \in Range(devs) : e.ws # websocket })

\* a variant of SetItem that adds a row even when the key exists
SetItemAppend(devs, e) == Append(devs, e)

\* self.devices[e.device_id] = e: an existing key keeps its position
SetItem(devs, e) ==
  IF Has(devs, e.device_id)
  THEN [devs EXCEPT ![Idx(devs, e.device_id)] = e]
  ELSE Append(devs, e)

\* ------------------------------------------------------------- task frames
\* One frame per coroutine in progress.  fn is the coroutine, pc the label it
\* continues at; the other fields are its local variables (unused ones keep
\* their default).
F0 == [fn |-> "", pc |-> "", ws |-> None, device_id |-> None, role |-> None,
       src |-> None, target |-> None, list |-> << >>, msg |-> M0,
       cnt |-> 0, total |-> 0, ok |-> TRUE, pkt |-> P0]

\* the labels at which a task is suspended on the transport
WaitPcs == {"receive_hs", "receive", "await_send", "await_close"}

\* ------------------------------------------------------------ observations
\* What a task did during its current (or last) operation, in order: the
\* sends it made and the registry as it was when the operation took its
\* snapshots; at is the count of inbound frames when a frame arrived or a
\* send was made.  Observation only: no operation reads it.
E0 == [ev |-> "", ws |-> None, id |-> None, role |-> None, msg |-> M0,
       ok |-> TRUE, reg |-> << >>, reg2 |-> << >>, unreg |-> {},
       rem |-> << >>, again |-> FALSE, pkt |-> P0, conns |-> << >>,
       locked |-> FALSE, at |-> 0]

\* the value a coroutine returns: ok for the bool of send_to_device and
\* disconnect_device, (cnt, total) for emergency_broadcast_to_pis
R0 == [ok |-> TRUE, cnt |-> 0, total |-> 0]

Top(m) == m.stk[Len(m.stk)]
Push(m, f) == [m EXCEPT !.stk = Append(@, f)]
Pop(m) == [m EXCEPT !.stk = SubSeq(@, 1, Len(@) - 1)]
Goto(m, pc) == [m EXCEPT !.stk[Len(m.stk)].pc = pc]
SetTop(m, f) == [m EXCEPT !.stk[Len(m.stk)] = f]
Return(m, v) == [Pop(m) EXCEPT !.ret = v]
Log(m, e) == [m EXCEPT !.tr = Append(@, e)]

\* ------------------------------------------------------------- self.lock
\* m.lock is TRUE while some task is inside `async with self.lock`.  A task
\* that finds it taken would be suspended; the observation "blocked" marks it.
Acquire(m) ==
  IF m.lock THEN Log(m, [E0 EXCEPT !.ev = "blocked"])
  ELSE [m EXCEPT !.lock = TRUE]
Release(m) == [m EXCEPT !.lock = FALSE]

\* the code at `site` reads or writes devices or unregistered
Access(m, site) ==
  [m EXCEPT !.acc = @ \cup {[site |-> site, locked |-> m.lock]}]

\* a variant of Section that leaves the block without releasing the lock
SectionHeld(m, site) == Access(Acquire(m), site)

\* an `async with self.lock:` block at `site` that touches the tables
Section(m, site) == Release(Access(Acquire(m), site))

\* --------------------------------------------------- ConnectionManager code
\* connect, after accept(): self.unregistered.add(websocket)
connect_lock(unreg, websocket) == unreg \cup {websocket}

\* a variant of register_lock that leaves the websocket in unregistered
register_lock_keeps_unreg(devs, unreg, websocket, device_id, role, meta, now) ==
  [devices |-> SetItem(DelWs(devs, websocket),
                       [device_id |-> device_id, ws |-> websocket,
                        role |-> role, meta |-> meta, last_seen |-> now,
                        emergency |-> FALSE]),
   unregistered |-> unreg]

\* a variant of register_lock that stores the entry under the device_id and
\* under the default id of its role
register_lock_two_keys(devs, unreg, websocket, device_id, role, meta, now) ==
  [devices |-> SetItem(SetItem(DelWs(devs, websocket),
                               [device_id |-> device_id, ws |-> websocket,
                                role |-> role, meta |-> meta,
                                last_seen |-> now, emergency |-> FALSE]),
                       [device_id |-> IF role = "pi" THEN "pi-unknown"
                                      ELSE "frontend-unknown",
                        ws |-> websocket, role |-> role, meta |-> meta,
                        last_seen |-> now, emergency |-> FALSE]),
   unregistered |-> unreg \ {websocket}]

\* register, the section under the lock: the new table and unregistered set
register_lock(devs, unreg, websocket, device_id, role, meta, now) ==
  [devices |-> SetItem(DelWs(devs, websocket),
                       [device_id |-> device_id, ws |-> websocket,
                        role |-> role, meta |-> meta, last_seen |-> now,
                        emergency |-> FALSE]),
   unregistered |-> unreg \ {websocket}]

\* a variant of disconnect_lock whose removed_devices names every key the
\* loop visited (the append outside the test of info["ws"])
disconnect_lock_appends_all(devs, unreg, websocket) ==
  [devices |-> DelWs(devs, websocket),
   unregistered |-> unreg \ {websocket},
   removed |-> [i \in 1..Len(devs) |-> devs[i].device_id]]

\* a variant of disconnect_lock that reports the entries without deleting them
disconnect_lock_keeps_entries(devs, unreg, websocket) ==
  [devices |-> devs,
   unregistered |-> unreg \ {websocket},
   removed |-> [i \in 1..Len(Filter(devs, {e \in Range(devs) : e.ws = websocket}))
                  |-> Filter(devs, {e \in Range(devs) : e.ws = websocket})[i].device_id]]

\* a variant of disconnect_lock without `self.unregistered.discard(websocket)`
disconnect_lock_keeps_unreg(devs, unreg, websocket) ==
  [devices |-> DelWs(devs, websocket),
   unregistered |-> unreg,
   removed |-> [i \in 1..Len(Filter(devs, {e \in Range(devs) : e.ws = websocket}))
                  |-> Filter(devs, {e \in Range(devs) : e.ws = websocket})[i].device_id]]

\* disconnect, the section under the lock: the new table, the new
\* unregistered set and removed_devices
disconnect_lock(devs, unreg, websocket) ==
  [devices |-> DelWs(devs, websocket),
   unregistered |-> unreg \ {websocket},
   removed |-> [i \in 1..Len(Filter(devs, {e \in Range(devs) : e.ws = websocket}))
                  |-> Filter(devs, {e \in Range(devs) : e.ws = websocket})[i].device_id]]

\* a variant of RoleConns that selects the pis whatever role is asked for
RoleConnsPis(devs, role) ==
  [i \in 1..Len(Filter(devs, {e \in Range(devs) : e.role = "pi"}))
     |-> Filter(devs, {e \in Range(devs) : e.role = "pi"})[i].ws]

\* [info["ws"] for info in self.devices.values() if info.get("role") == role]
RoleConns(devs, role) ==
  [i \in 1..Len(Filter(devs, {e \in Range(devs) : e.role = role}))
     |-> Filter(devs, {e \in Range(devs) : e.role = role})[i].ws]

\* broadcast_json: [info["ws"] for info in self.devices.values()]
AllConns(devs) == [i \in 1..Len(devs) |-> devs[i].ws]

\* a variant of PiDevices that stops at the first pi
PiDevicesFirst(devs) ==
  [i \in 1..(IF Filter(devs, {e \in Range(devs) : e.role = "pi"}) = << >>
             THEN 0 ELSE 1)
     |-> [device_id |-> Filter(devs, {e \in Range(devs) : e.role = "pi"})[i].device_id,
          ws |-> Filter(devs, {e \in Range(devs) : e.role = "pi"})[i].ws]]

\* emergency_broadcast_to_pis: the (did, info) pairs with role pi
PiDevices(devs) ==
  [i \in 1..Len(Filter(devs, {e \in Range(devs) : e.role = "pi"}))
     |-> [device_id |-> Filter(devs, {e \in Range(devs) : e.role = "pi"})[i].device_id,
          ws |-> Filter(devs, {e \in Range(devs) : e.role = "pi"})[i].ws]]

\* emergency_broadcast_to_pis, after a send that did not raise:
\* if device_id in self.devices: self.devices[device_id]["emergency"] = True
mark_emergency(devs, device_id) ==
  IF Has(devs, device_id)
  THEN [devs EXCEPT ![Idx(devs, device_id)].emergency = TRUE]
  ELSE devs

\* clear_emergency_status(device_id): one entry, or all when device_id is None
\* a variant of clear_emergency_status where an unknown id clears every flag
clear_emergency_status_all(devs, device_id) ==
  IF device_id # None /\ device_id # "" /\ Has(devs, device_id)
  THEN [devs EXCEPT ![Idx(devs, device_id)].emergency = FALSE]
  ELSE [i \in 1..Len(devs) |-> [devs[i] EXCEPT !.emergency = FALSE]]

clear_emergency_status(devs, device_id) ==
  IF device_id # None /\ device_id # ""
  THEN IF Has(devs, device_id)
       THEN [devs EXCEPT ![Idx(devs, device_id)].emergency = FALSE]
       ELSE devs
  ELSE [i \in 1..Len(devs) |-> [devs[i] EXCEPT !.emergency = FALSE]]

\* list_devices: one row per entry of the table
list_devices(devs) ==
  [i \in 1..Len(devs) |->
     [device_id |-> devs[i].device_id, role |-> devs[i].role,
      meta |-> devs[i].meta, last_seen |-> devs[i].last_seen,
      emergency |-> devs[i].emergency]]

\* websocket_endpoint, "update last_seen/meta" under the lock
touch(devs, src, payload, now) ==
  IF Has(devs, src)
  THEN [devs EXCEPT ![Idx(devs, src)] =
          [@ EXCEPT !.last_seen = now,
                    !.meta = IF DOMAIN payload # {} THEN DictUpdate(@, payload) ELSE @]]
  ELSE devs

\* ------------------------------------------------------------ the machine
\* m is what a running task can read and write: its own stack stk and
\* observations tr, the manager's devices and unregistered, the state conn
\* of every connection, the value ret and the flag exc (an exception is
\* propagating) passed between frames, and the history regBy, stopSent,
\* discDone, lastConnected kept for the properties.

\* send_json(payload, websocket): the frame is handed to the transport now;
\* the task is suspended until the send completes.
send_json(m, payload, websocket) ==
  LET ok == m.conn[websocket] = "open" IN
  Push([m EXCEPT
          !.tr = Append(@, [E0 EXCEPT !.ev = "send", !.ws = websocket,
                                      !.msg = payload, !.ok = ok,
                                      !.locked = m.lock,
                                      !.at = m.clock,
                                      !.unreg = m.unregistered]),
          !.stopSent = IF ok /\ payload.action = "control"
                           /\ payload.type = "emergency_stop"
                        THEN @ \cup {websocket} ELSE @,
          !.lastConnected =
             IF ok /\ payload.action = "device_connected"
             THEN @ \cup {<< websocket, payload.device_id >>}
             ELSE IF ok /\ payload.action = "device_disconnected"
             THEN @ \ {<< websocket, payload.device_id >>}
             ELSE @],
       [F0 EXCEPT !.fn = "send_json", !.pc = "await_send", !.ws = websocket,
                  !.msg = payload, !.ok = ok])

\* a variant of broadcast_to_frontends that takes every connection
broadcast_to_everyone(m, payload) ==
  Push(Log(m, [E0 EXCEPT !.ev = "fanout", !.role = "frontend", !.msg = payload,
                         !.conns = AllConns(m.devices)]),
       [F0 EXCEPT !.fn = "broadcast_to_frontends", !.pc = "loop",
                  !.list = AllConns(m.devices), !.msg = payload])

\* broadcast_to_frontends / broadcast_to_pis: snapshot under the lock, then
\* the loop over conns
broadcast_to_frontends(m, payload) ==
  Push(Log(Section(m, "broadcast_to_frontends"), [E0 EXCEPT !.ev = "fanout", !.role = "frontend", !.msg = payload,
                         !.conns = RoleConns(m.devices, "frontend")]),
       [F0 EXCEPT !.fn = "broadcast_to_frontends", !.pc = "loop",
                  !.list = RoleConns(m.devices, "frontend"), !.msg = payload])

broadcast_to_pis(m, payload) ==
  Push(Log(Section(m, "broadcast_to_pis"), [E0 EXCEPT !.ev = "fanout", !.role = "pi", !.msg = payload,
                         !.conns = RoleConns(m.devices, "pi")]),
       [F0 EXCEPT !.fn = "broadcast_to_pis", !.pc = "loop",
                  !.list = RoleConns(m.devices, "pi"), !.msg = payload])

broadcast_json(m, payload) ==
  Push(Section(m, "broadcast_json"), [F0 EXCEPT !.fn = "broadcast_json", !.pc = "loop",
                     !.list = AllConns(m.devices), !.msg = payload])

\* a variant of disconnect that returns without touching the tables
disconnect_forgets(m, websocket) ==
  Push(m, [F0 EXCEPT !.fn = "disconnect", !.pc = "loop", !.ws = websocket])

\* disconnect(websocket): the lock section, then the loop over removed_devices
disconnect(m0, websocket) ==
  LET m == Section(m0, "disconnect")
      r == disconnect_lock(m.devices, m.unregistered, websocket)
      gone == Filter(m.devices, {e \in Range(m.devices) : e.ws = websocket})
  IN
  Push([m EXCEPT
          !.devices = r.devices,
          !.unregistered = r.unregistered,
          !.discDone = @ \cup {websocket},
          !.tr = @ \o << [E0 EXCEPT !.ev = "disconnect", !.ws = websocket,
                                    !.rem = r.removed,
                                    !.reg2 = r.devices,
                                    !.again = websocket \in m.discDone,
                                    !.ok = (r.devices = m.devices
                                            /\ r.unregistered = m.unregistered)] >>
                  \o [i \in 1..Len(gone) |->
                        [E0 EXCEPT !.ev = "remove", !.ws = websocket,
                                   !.id = gone[i].device_id,
                                   !.role = gone[i].role,
                                   !.reg = r.devices]]],
       [F0 EXCEPT !.fn = "disconnect", !.pc = "loop", !.ws = websocket,
                  !.list = r.removed])

\* a variant of register that turns the anonymous fallback identity away
register_rejects_anonymous(m, websocket, device_id, role, meta) ==
  LET r == register_lock(m.devices, m.unregistered, websocket, device_id,
                         role, meta, m.clock)
      m1 == [m EXCEPT
               !.devices = r.devices,
               !.unregistered = r.unregistered,
               !.regBy = [@ EXCEPT ![device_id] = websocket],
               !.tr = Append(@, [E0 EXCEPT !.ev = "register", !.ws = websocket,
                                           !.id = device_id, !.role = role,
                                           !.reg = r.devices,
                                           !.unreg = r.unregistered])]
  IN
  IF device_id = "frontend-unknown"
  THEN disconnect(m, websocket)
  ELSE IF role = "pi"
  THEN broadcast_to_frontends(
         Push(m1, [F0 EXCEPT !.fn = "register", !.pc = "notified"]),
         [M0 EXCEPT !.action = "device_connected", !.device_id = device_id,
                    !.role = role])
  ELSE m1

\* register(websocket, device_id, role, meta): the lock section, then the
\* device_connected broadcast when role is pi
register(m0, websocket, device_id, role, meta) ==
  LET m == Section(m0, "register")
      r == register_lock(m.devices, m.unregistered, websocket, device_id,
                         role, meta, m.clock)
      m1 == [m EXCEPT
               !.devices = r.devices,
               !.unregistered = r.unregistered,
               !.regBy = [@ EXCEPT ![device_id] = websocket],
               !.tr = Append(@, [E0 EXCEPT !.ev = "register", !.ws = websocket,
                                           !.id = device_id, !.role = role,
                                           !.reg = r.devices,
                                           !.unreg = r.unregistered])]
  IN
  IF role = "pi"
  THEN broadcast_to_frontends(
         Push(m1, [F0 EXCEPT !.fn = "register", !.pc = "notified"]),
         [M0 EXCEPT !.action = "device_connected", !.device_id = device_id,
                    !.role = role])
  ELSE m1

\* emergency_broadcast_to_pis(payload): snapshot under the lock, then the loop
emergency_broadcast_to_pis(m0, payload) ==
  LET m == Section(m0, "emergency_broadcast_to_pis") IN
  Push([m EXCEPT !.tr = Append(@, [E0 EXCEPT
                                     !.ev = "emergency", !.role = "pi",
                                     !.msg = payload, !.reg = m.devices,
                                     !.conns = [i \in 1..Len(PiDevices(m.devices))
                                                  |-> PiDevices(m.devices)[i].ws]])],
       [F0 EXCEPT !.fn = "emergency_broadcast_to_pis", !.pc = "loop",
                  !.list = PiDevices(m.devices), !.msg = payload,
                  !.cnt = 0, !.total = Len(PiDevices(m.devices))])

\* send_to_device(device_id, payload): lookup under the lock, then the send
send_to_device(m0, device_id, payload) ==
  LET m == Section(m0, "send_to_device") IN
  IF ~Has(m.devices, device_id)
  THEN [m EXCEPT !.ret = [R0 EXCEPT !.ok = FALSE]]
  ELSE send_json(
         Push(m, [F0 EXCEPT !.fn = "send_to_device", !.pc = "sent",
                            !.ws = Lookup(m.devices, device_id).ws]),
         payload, Lookup(m.devices, device_id).ws)

\* the observation of a call of disconnect_device and of its return
ForceCall(m, device_id) ==
  Log(m, [E0 EXCEPT !.ev = "force", !.id = device_id, !.reg = m.devices,
                    !.unreg = m.unregistered])
ForceReturn(m, device_id, ws, ok) ==
  Log(m, [E0 EXCEPT !.ev = "forced", !.id = device_id, !.ws = ws, !.ok = ok,
                    !.reg2 = m.devices, !.unreg = m.unregistered])

\* a variant of disconnect_device that closes the endpoint of the oldest entry
disconnect_device_oldest(m, device_id) ==
  IF ~Has(m.devices, device_id)
  THEN [ForceReturn(ForceCall(m, device_id), device_id, None, FALSE)
          EXCEPT !.ret = [R0 EXCEPT !.ok = FALSE]]
  ELSE Push([ForceCall(m, device_id) EXCEPT !.conn[m.devices[1].ws] = "closed"],
            [F0 EXCEPT !.fn = "disconnect_device", !.pc = "await_close",
                       !.ws = m.devices[1].ws, !.device_id = device_id])

\* disconnect_device(device_id): lookup under the lock, then ws.close()
disconnect_device(m0, device_id) ==
  LET m == Section(m0, "disconnect_device") IN
  IF ~Has(m.devices, device_id)
  THEN [ForceReturn(ForceCall(m, device_id), device_id, None, FALSE)
          EXCEPT !.ret = [R0 EXCEPT !.ok = FALSE]]
  ELSE Push([ForceCall(m, device_id)
               EXCEPT !.conn[Lookup(m.devices, device_id).ws] = "closed"],
            [F0 EXCEPT !.fn = "disconnect_device", !.pc = "await_close",
                       !.ws = Lookup(m.devices, device_id).ws,
                       !.device_id = device_id])

\* a variant of NextConn that leaves the loop after the first target
NextConnStop(f) == [f EXCEPT !.list = << >>, !.pc = "loop"]

\* the loop goes on with the next element of the snapshot
NextConn(f) == [f EXCEPT !.list = Tail(@), !.pc = "loop"]

\* One synchronous stretch of a ConnectionManager coroutine whose frame f is
\* on top of the stack, from the label f.pc to its next call or return.
ManagerExec(m, f) ==
  CASE f.fn \in {"broadcast_to_frontends", "broadcast_to_pis", "broadcast_json"} ->
         (CASE f.pc = "loop" ->
                IF f.list = << >> THEN Pop(m)
                ELSE send_json(Goto(m, "sent"), f.msg, Head(f.list))
           [] f.pc = "sent" ->
                IF m.exc
                THEN disconnect(Goto([m EXCEPT !.exc = FALSE], "next"), Head(f.list))
                ELSE SetTop(m, NextConn(f))
           [] f.pc = "next" -> SetTop(m, NextConn(f)))
    [] f.fn = "disconnect" ->
         (CASE f.pc = "loop" ->
                IF f.list = << >> THEN Pop(m)
                ELSE broadcast_to_frontends(
                       Goto(m, "next"),
                       [M0 EXCEPT !.action = "device_disconnected",
                                  !.device_id = Head(f.list)])
           [] f.pc = "next" -> SetTop(m, NextConn(f)))
    [] f.fn = "register" -> Pop(m)
    [] f.fn = "emergency_broadcast_to_pis" ->
         (CASE f.pc = "loop" ->
                IF f.list = << >>
                THEN Return(m, [R0 EXCEPT !.cnt = f.cnt, !.total = f.total])
                ELSE send_json(Goto(m, "sent"), f.msg, Head(f.list).ws)
           [] f.pc = "sent" ->
                IF m.exc
                THEN disconnect(Goto([m EXCEPT !.exc = FALSE], "next"),
                                Head(f.list).ws)
                ELSE SetTop([Section(m, "emergency_broadcast_to_pis")
                               EXCEPT !.devices =
                                 mark_emergency(@, Head(f.list).device_id)],
                            [NextConn(f) EXCEPT !.cnt = @ + 1])
           [] f.pc = "next" -> SetTop(m, NextConn(f)))
    [] f.fn = "send_to_device" ->
         (CASE f.pc = "sent" ->
                IF m.exc
                THEN disconnect(Goto([m EXCEPT !.exc = FALSE], "failed"), f.ws)
                ELSE Return(m, [R0 EXCEPT !.ok = TRUE])
           [] f.pc = "failed" -> Return(m, [R0 EXCEPT !.ok = FALSE]))
    [] f.fn = "disconnect_device" ->
         (CASE f.pc = "closed" -> disconnect(Goto(m, "done"), f.ws)
           [] f.pc = "done" ->
                Return(ForceReturn(m, f.device_id, f.ws, TRUE),
                       [R0 EXCEPT !.ok = TRUE]))

\* --------------------------------------------------------- Astar_planner.py
\* A grid is a sequence of rows of 0 (walkable) and 1 (wall).  A node is
\* << row, col >>, counted from 0 as in the code.
Abs(x) == IF x < 0 THEN 0 - x ELSE x

InBounds(grid, n) ==
  0 <= n[1] /\ n[1] < Len(grid) /\ 0 <= n[2] /\ n[2] < Len(grid[1])

Cell(grid, n) == grid[n[1] + 1][n[2] + 1]

manhattan(a, b) == Abs(a[1] - b[1]) + Abs(a[2] - b[2])

\* a variant of neighbors that also steps onto walls
neighbors_any(grid, node) ==
  LET cand == << << node[1] - 1, node[2] >>, << node[1] + 1, node[2] >>,
                 << node[1], node[2] - 1 >>, << node[1], node[2] + 1 >> >>
  IN Filter(cand, { n \in Range(cand) : InBounds(grid, n) })

\* the walkable 4-connected neighbours, in the order up, down, left, right
neighbors(grid, node) ==
  LET cand == << << node[1] - 1, node[2] >>, << node[1] + 1, node[2] >>,
                 << node[1], node[2] - 1 >>, << node[1], node[2] + 1 >> >>
  IN Filter(cand, { n \in Range(cand) : InBounds(grid, n) /\ Cell(grid, n) = 0 })

RECURSIVE reconstruct_path(_, _)
\* the path from the start to current along came_from
reconstruct_path(came_from, current) ==
  IF current \in DOMAIN came_from
  THEN Append(reconstruct_path(came_from, came_from[current]), current)
  ELSE << current >>

\* tuple comparison a < b of Python on (row, col)
NodeLess(a, b) == a[1] < b[1] \/ (a[1] = b[1] /\ a[2] < b[2])

\* tuple comparison a <= b of Python on heap entries (f, counter, node)
EntryLeq(a, b) ==
  \/ a[1] < b[1]
  \/ a[1] = b[1] /\ a[2] < b[2]
  \/ a[1] = b[1] /\ a[2] = b[2] /\ (a[3] = b[3] \/ NodeLess(a[3], b[3]))

\* a variant of HeapMin that pops the greatest entry
HeapMax(open_heap) ==
  CHOOSE e \in open_heap : \A o \in open_heap : EntryLeq(o, e)

\* heapq.heappop on entries << f, counter, node >>: the least entry
HeapMin(open_heap) ==
  CHOOSE e \in open_heap : \A o \in open_heap : EntryLeq(e, o)

\* a variant of Push1 that pushes without advancing the counter
Push1Stale(st, current, nb, tentative_g, goal) ==
  [st EXCEPT
     !.came_from = (nb :> current) @@ @,
     !.g_score = (nb :> tentative_g) @@ @,
     !.open_heap = @ \cup {<< tentative_g + manhattan(nb, goal), st.counter, nb >>}]

\* lines 158-163: nb is reached better than before and goes to the frontier
Push1(st, current, nb, tentative_g, goal) ==
  [st EXCEPT
     !.came_from = (nb :> current) @@ @,
     !.g_score = (nb :> tentative_g) @@ @,
     !.counter = @ + 1,
     !.open_heap = @ \cup {<< tentative_g + manhattan(nb, goal),
                              st.counter + 1, nb >>}]

RECURSIVE Relax(_, _, _, _)
\* the loop over the neighbours nbrs of current, lines 152-163
Relax(st, current, nbrs, goal) ==
  IF nbrs = << >> THEN st
  ELSE LET nb == Head(nbrs)
           tentative_g == st.g_score[current] + 1
       IN
       IF nb \in st.closed
       THEN Relax(st, current, Tail(nbrs), goal)
       ELSE IF nb \notin DOMAIN st.g_score \/ tentative_g < st.g_score[nb]
       THEN Relax(Push1(st, current, nb, tentative_g, goal),
                  current, Tail(nbrs), goal)
       ELSE Relax(st, current, Tail(nbrs), goal)

\* the locals of astar when the loop is entered, lines 130-139; done and path
\* are the return of the function.  History, read by no step: expanded, the
\* cells that passed `closed.add(current)` in order, each with its g_score
\* and the counter at that moment, and skipped, the cells that met `continue`
\* at line 148.
SearchInit(start, goal) ==
  [open_heap |-> {<< manhattan(start, goal), 0, start >>},
   g_score |-> (start :> 0),
   came_from |-> [n \in {} |-> start],
   closed |-> {},
   counter |-> 0,
   done |-> FALSE,
   path |-> << >>,
   expanded |-> << >>,
   skipped |-> << >>]

\* a variant of SearchStep without the test `if current in closed`
SearchStepReexpands(grid, st, goal) ==
  IF st.open_heap = {} THEN [st EXCEPT !.done = TRUE, !.path = << >>]
  ELSE LET e == HeapMin(st.open_heap)
           current == e[3]
           popped == [st EXCEPT !.open_heap = @ \ {e}]
       IN
       IF current = goal
       THEN [popped EXCEPT !.done = TRUE,
                           !.path = reconstruct_path(st.came_from, current)]
       ELSE Relax([popped EXCEPT
                     !.closed = @ \cup {current},
                     !.expanded = Append(@, [node |-> current,
                                             g |-> st.g_score[current],
                                             counter |-> st.counter])],
                  current, neighbors(grid, current), goal)

\* one test of `while open_heap` and one pass through the loop body, lines
\* 141-166
SearchStep(grid, st, goal) ==
  IF st.open_heap = {} THEN [st EXCEPT !.done = TRUE, !.path = << >>]
  ELSE LET e == HeapMin(st.open_heap)
           current == e[3]
           popped == [st EXCEPT !.open_heap = @ \ {e}]
       IN
       IF current = goal
       THEN [popped EXCEPT !.done = TRUE,
                           !.path = reconstruct_path(st.came_from, current)]
       ELSE IF current \in st.closed
       THEN [popped EXCEPT !.skipped = Append(@, current)]
       ELSE Relax([popped EXCEPT
                     !.closed = @ \cup {current},
                     !.expanded = Append(@, [node |-> current,
                                             g |-> st.g_score[current],
                                             counter |-> st.counter])],
                  current, neighbors(grid, current), goal)

RECURSIVE Search(_, _, _)
\* the loop `while open_heap` run to its return
Search(grid, st, goal) ==
  IF st.done THEN st.path ELSE Search(grid, SearchStep(grid, st, goal), goal)

\* a variant of AstarError that lets a goal on a wall pass
AstarErrorGoalUnchecked(grid, start, goal) ==
  IF ~InBounds(grid, start) THEN "Start node out of grid bounds"
  ELSE IF ~InBounds(grid, goal) THEN "Goal node out of grid bounds"
  ELSE IF Cell(grid, start) # 0 THEN "Start node is not walkable"
  ELSE ""

\* the ValueError of the checks at lines 121-128, "" when they pass
AstarError(grid, start, goal) ==
  IF ~InBounds(grid, start) THEN "Start node out of grid bounds"
  ELSE IF ~InBounds(grid, goal) THEN "Goal node out of grid bounds"
  ELSE IF Cell(grid, start) # 0 THEN "Start node is not walkable"
  ELSE IF Cell(grid, goal) # 0 THEN "Goal node is not walkable"
  ELSE ""

\* astar(grid, start, goal): raised is the ValueError of the checks at lines
\* 121-128, path the list returned otherwise (empty when there is no path)
astar(grid, start, goal) ==
  IF AstarError(grid, start, goal) # ""
  THEN [raised |-> TRUE, path |-> << >>]
  ELSE [raised |-> FALSE,
        path |-> Search(grid, SearchInit(start, goal), goal)]

\* a variant of delta_to_heading with north and south exchanged
delta_to_heading_flipped(dr, dc) ==
  IF dr = 0 - 1 /\ dc = 0 THEN "S"
  ELSE IF dr = 1 /\ dc = 0 THEN "N"
  ELSE IF dr = 0 /\ dc = 0 - 1 THEN "W"
  ELSE "E"

delta_to_heading(dr, dc) ==
  IF dr = 0 - 1 /\ dc = 0 THEN "N"
  ELSE IF dr = 1 /\ dc = 0 THEN "S"
  ELSE IF dr = 0 /\ dc = 0 - 1 THEN "W"
  ELSE "E"

\* a variant of waypoints_with_headings that answers the empty path with a
\* waypoint at the origin
waypoints_with_origin(path) ==
  IF path = << >> THEN << [row |-> 0, col |-> 0, heading |-> "E"] >>
  ELSE [i \in 1..Len(path) |->
          [row |-> path[i][1], col |-> path[i][2], heading |-> "E"]]

\* one waypoint per node; the last one repeats the heading of the last move
waypoints_with_headings(path) ==
  [i \in 1..Len(path) |->
     [row |-> path[i][1], col |-> path[i][2],
      heading |-> IF i < Len(path)
                  THEN delta_to_heading(path[i + 1][1] - path[i][1],
                                        path[i + 1][2] - path[i][2])
                  ELSE IF Len(path) = 1 THEN "E"
                  ELSE delta_to_heading(path[i][1] - path[i - 1][1],
                                        path[i][2] - path[i - 1][2])]]

plan_with_headings(grid, start, goal) ==
  [raised |-> astar(grid, start, goal).raised,
   waypoints |-> waypoints_with_headings(astar(grid, start, goal).path)]

\* ------------------------------------------------------ websocket_endpoint
\* f"{role}-unknown", for the roles the model's handshakes use
DefaultId(role) == IF role = "pi" THEN "pi-unknown" ELSE "frontend-unknown"

\* no map loaded: NAV_GRID is None when MAP_FILE does not exist at startup;
\* `if NAV_GRID:` is false for it as for an empty grid
NoGrid == << >>

\* POI_MAP, name -> (row, col)
POI_MAP == [kitchen |-> << 1, 1 >>, living_room |-> << 4, 4 >>,
            garage |-> << 0, 0 >>]

POI_NAMES == DOMAIN POI_MAP

\* payload["destination"]: a JSON string (str, list empty) or a JSON list
\* (str None); an absent key is neither
NoDest == [str |-> None, list |-> << >>]
DestName(s) == [str |-> s, list |-> << >>]
DestList(l) == [str |-> None, list |-> l]

\* str.lower(), on the destination names the frames use
Lower(s) == IF s = "Kitchen" THEN "kitchen" ELSE s

\* the reply that closes a control message routed to one target or to all:
\* quick_command_sent carries the text (lines 606, 612), route_command_sent
\* the type (621, 627), sent the target only (635, 641)
SentStatus(envelope, target) ==
  IF envelope.type = "quick_command"
  THEN [M0 EXCEPT !.status = "quick_command_sent", !.target = target,
                  !.text = Get(envelope.payload, "text", "")]
  ELSE IF envelope.type \in {"auto_route_start", "auto_route_stop"}
  THEN [M0 EXCEPT !.status = "route_command_sent", !.target = target,
                  !.type = envelope.type]
  ELSE [M0 EXCEPT !.status = "sent", !.target = target]

MissingTarget(ptype) ==
  IF ptype = "quick_command" THEN "missing target for quick_command"
  ELSE IF ptype \in {"auto_route_start", "auto_route_stop"}
       THEN "missing target for route command"
  ELSE "missing target for control message"

\* a variant of Reply that answers on every connection of the table
ReplyToAll(m, f, msg) ==
  Push(Log(Goto(m, "continue"),
           [E0 EXCEPT !.ev = "fanout", !.role = "frontend", !.msg = msg,
                      !.conns = AllConns(m.devices)]),
       [F0 EXCEPT !.fn = "broadcast_json", !.pc = "loop",
                  !.list = AllConns(m.devices), !.msg = msg])

\* a reply to the sender's own websocket, after which the loop continues
Reply(m, f, msg) == send_json(Goto(m, "continue"), msg, f.ws)

\* a variant of RouteControl where a missing target means every pi
RouteControlDefaultAll(m, f, target, envelope, payload) ==
  IF target = "all" \/ target = None \/ target = ""
     \/ Get(payload, "broadcast", FALSE)
  THEN broadcast_to_pis(SetTop(m, [f EXCEPT !.pc = "all_done", !.msg = envelope]),
                        envelope)
  ELSE send_to_device(SetTop(m, [f EXCEPT !.pc = "one_sent", !.msg = envelope,
                                          !.target = target]),
                      target, envelope)

\* control messages other than emergency_stop and request_route: to all pis,
\* to the named target, or the missing-target error
RouteControl(m, f, target, envelope, payload) ==
  IF target = "all" \/ Get(payload, "broadcast", FALSE)
  THEN broadcast_to_pis(SetTop(m, [f EXCEPT !.pc = "all_done", !.msg = envelope]),
                        envelope)
  ELSE IF target # None /\ target # ""
  THEN send_to_device(SetTop(m, [f EXCEPT !.pc = "one_sent", !.msg = envelope,
                                          !.target = target]),
                      target, envelope)
  ELSE Reply(m, f, [M0 EXCEPT !.error = MissingTarget(envelope.type)])

\* start_pos of request_route: the target's stored location, else the
\* payload's start_location, else (0, 0)
StartPos(device_meta, payload) ==
  IF "location" \in DOMAIN device_meta /\ device_meta["location"] # << >>
  THEN device_meta["location"]
  ELSE Get(payload, "start_location", << 0, 0 >>)

\* goal_pos of request_route: a named point of interest or a two-element
\* list; << >> is None
GoalPos(dest_raw) ==
  IF dest_raw.str # None
  THEN IF Lower(dest_raw.str) \in DOMAIN POI_MAP
       THEN POI_MAP[Lower(dest_raw.str)] ELSE << >>
  ELSE IF Len(dest_raw.list) = 2 THEN dest_raw.list ELSE << >>

\* a variant of RouteCommand that carries the goal waypoint alone
RouteCommandGoalOnly(waypoints) ==
  [M0 EXCEPT !.action = "control", !.type = "execute_route",
             !.from = "server",
             !.waypoints = << waypoints[Len(waypoints)] >>]

\* the command sent to the car and the acknowledgement sent to the caller
RouteCommand(waypoints) ==
  [M0 EXCEPT !.action = "control", !.type = "execute_route",
             !.from = "server", !.waypoints = waypoints]
RouteAck(target, waypoints) ==
  [M0 EXCEPT !.status = "route_calculated", !.target = target,
             !.waypoints = waypoints]

\* request_route, lines 519-593
RequestRoute(m0, f, target, payload) ==
  LET dest_raw == Get(payload, "destination", NoDest)
      \* lines 523 and 528 read manager.devices outside any lock block;
      \* `not target_device or ...` does not read it when the target is missing
      m == IF target = None \/ target = "" THEN m0
           ELSE Access(m0, "request_route")
  IN
  IF target = None \/ target = "" \/ ~Has(m.devices, target)
  THEN Reply(m, f, [M0 EXCEPT !.error = "Target device not found or offline"])
  ELSE
  LET start_pos == StartPos(Lookup(m.devices, target).meta, payload)
      goal_pos == GoalPos(dest_raw)
  IN
  IF goal_pos = << >>
  THEN Reply(m, f, [M0 EXCEPT !.error = "Unknown destination"])
  ELSE IF m.NAV_GRID # NoGrid
  THEN LET plan == plan_with_headings(m.NAV_GRID, start_pos, goal_pos) IN
       IF plan.raised
       THEN Reply(m, f, [M0 EXCEPT !.error = "Planning failed"])
       ELSE IF plan.waypoints = << >>
       THEN Reply(m, f, [M0 EXCEPT !.error = "No path found (blocked or invalid)"])
       ELSE send_to_device(
              SetTop(m, [f EXCEPT !.pc = "route_sent", !.target = target,
                                  !.msg = RouteAck(target, plan.waypoints)]),
              target, RouteCommand(plan.waypoints))
  ELSE Reply(m, f, [M0 EXCEPT !.error = "Server has no map loaded"])

\* the body of the receive loop for one frame, lines 438-653
Dispatch(m0, f) ==
  LET packet == f.pkt
      act == packet.action
      ptype == packet.type
      payload == packet.payload
      src == IF packet.device_id = None THEN f.device_id ELSE packet.device_id
      role == f.role
      m == [Section(m0, "websocket_endpoint") EXCEPT
                      !.devices = touch(@, src, payload, m0.clock),
                      !.tr = Append(@, [E0 EXCEPT
                                          !.ev = "touch", !.ws = f.ws, !.id = src,
                                          !.reg = m0.devices,
                                          !.reg2 = touch(m0.devices, src, payload,
                                                         m0.clock)])]
      out == [M0 EXCEPT !.from = src, !.action = act, !.type = ptype,
                        !.payload = payload]
  IN
  IF ~packet.json
  THEN Reply(m0, f, [M0 EXCEPT !.error = "expected json"])
  ELSE IF ~packet.object
  THEN \* packet.get("action") raises, line 444
       [m0 EXCEPT !.exc = TRUE]
  ELSE IF act = "telemetry" /\ ptype = "camera_frame" /\ role = "pi"
  THEN broadcast_to_frontends(Goto(m, "continue"), out)
  ELSE IF act = "telemetry" /\ ptype = "emergency_ack" /\ role = "pi"
  THEN broadcast_to_frontends(SetTop(m, [f EXCEPT !.pc = "ack_clear", !.src = src]),
                              out)
  ELSE IF act = "telemetry" /\ ptype = "emergency_cleared_ack" /\ role = "pi"
  THEN broadcast_to_frontends(Goto(m, "continue"), out)
  ELSE IF act \in {"microphone_open", "microphone_close"} /\ role = "frontend"
  THEN LET target == OrElse(packet.target,
                            OrElse(Get(payload, "device_id", None), "pi-01"))
           envelope == [M0 EXCEPT !.from = src, !.action = "control",
                                  !.type = act, !.payload = payload]
       IN send_to_device(SetTop(m, [f EXCEPT !.pc = "mic_sent", !.msg = envelope,
                                             !.target = target]),
                         target, envelope)
  ELSE IF act = "control" /\ role = "frontend"
  THEN LET target == OrElse(packet.target, Get(payload, "target", None))
           envelope == [M0 EXCEPT !.from = src, !.action = "control",
                                  !.type = ptype, !.payload = payload]
       IN
       IF ptype = "emergency_stop"
       THEN emergency_broadcast_to_pis(
              SetTop(m, [f EXCEPT !.pc = "emerg_done", !.src = src]), envelope)
       ELSE IF ptype = "request_route"
       THEN RequestRoute(m, f, target, payload)
       ELSE IF ptype = "quick_command" /\ Get(payload, "text", "") = ""
       THEN Reply(m, f, [M0 EXCEPT !.error = "missing quick_command text"])
       ELSE RouteControl(m, f, target, envelope, payload)
  ELSE IF role = "pi"
  THEN broadcast_to_frontends(Goto(m, "continue"), out)
  ELSE \* line 653: {"echo": packet}, the whole packet
       Reply(m, f, [M0 EXCEPT !.status = "echo", !.action = act, !.type = ptype,
                              !.device_id = packet.device_id,
                              !.role = packet.role,
                              !.target = packet.target, !.payload = payload])

\* the observation that the handler leaves its loop, with its locals
HandlerEnd(m, f) ==
  Log(m, [E0 EXCEPT !.ev = "handler_end", !.ws = f.ws, !.id = f.device_id,
                    !.role = f.role, !.reg = m.devices,
                    !.unreg = m.unregistered])

\* a variant of OnDisconnect that first deletes the entry of its device_id
OnDisconnectById(m, f) ==
  disconnect([Goto(HandlerEnd(m, f), "end") EXCEPT
                !.devices = Filter(@, {e \in Range(@) : e.device_id # f.device_id})],
             f.ws)

\* the two except clauses of the handler, lines 655-658
OnDisconnect(m, f) == disconnect(Goto(HandlerEnd(m, f), "end"), f.ws)

\* One synchronous stretch of the connection handler, from the label f.pc.
\* An exception that reaches the handler (a failed send to its own
\* websocket) goes to `except Exception: await manager.disconnect(websocket)`.
HandlerExec(m, f) ==
  IF m.exc /\ f.pc # "route_acked"
  THEN OnDisconnect([m EXCEPT !.exc = FALSE], f)
  ELSE
  CASE f.pc = "handshake" ->
         IF ~f.pkt.json
         THEN register(SetTop(m, [f EXCEPT !.device_id = "frontend-unknown",
                                           !.role = "frontend",
                                           !.pc = "continue"]),
                       f.ws, "frontend-unknown", "frontend", EmptyDict)
         ELSE IF ~f.pkt.object
         THEN \* msg.get("role", "frontend") raises, line 427
              [m EXCEPT !.exc = TRUE]
         ELSE LET role == IF f.pkt.role = None THEN "frontend" ELSE f.pkt.role
                  device_id == IF f.pkt.device_id = None THEN DefaultId(role)
                               ELSE f.pkt.device_id
              IN register(SetTop(m, [f EXCEPT !.device_id = device_id,
                                              !.role = role,
                                              !.pc = "registered"]),
                          f.ws, device_id, role, f.pkt.payload)
    [] f.pc = "registered" ->
         Reply(m, f, [M0 EXCEPT !.status = "connected",
                                !.device_id = f.device_id, !.role = f.role])
    [] f.pc = "continue" -> Goto(m, "receive")
    [] f.pc = "dispatch" -> Dispatch(m, f)
    [] f.pc = "ack_clear" ->
         Goto([Section(m, "clear_emergency_status") EXCEPT
                 !.devices = clear_emergency_status(@, f.src),
                 !.tr = Append(@, [E0 EXCEPT
                                     !.ev = "clear", !.ws = f.ws, !.id = f.src,
                                     !.reg = m.devices,
                                     !.reg2 = clear_emergency_status(m.devices,
                                                                     f.src)])],
              "continue")
    [] f.pc = "mic_sent" ->
         IF ~m.ret.ok
         THEN Reply(m, f, [M0 EXCEPT !.error = "target offline", !.target = f.target])
         ELSE Reply(m, f, [M0 EXCEPT !.status = IF f.msg.type = "microphone_open"
                                                THEN "microphone_open_sent"
                                                ELSE "microphone_close_sent",
                                     !.target = f.target])
    [] f.pc = "emerg_done" ->
         send_json(SetTop(m, [f EXCEPT !.pc = "emerg_replied",
                                       !.cnt = m.ret.cnt, !.total = m.ret.total]),
                   [M0 EXCEPT !.status = "emergency_sent",
                              !.reached = m.ret.cnt, !.total = m.ret.total],
                   f.ws)
    [] f.pc = "emerg_replied" ->
         broadcast_to_frontends(
           Goto(m, "continue"),
           [M0 EXCEPT !.action = "emergency_broadcast", !.from = f.src,
                      !.reached = f.cnt, !.total = f.total])
    [] f.pc = "all_done" ->
         Reply(m, f, SentStatus(f.msg, "all"))
    [] f.pc = "one_sent" ->
         IF ~m.ret.ok
         THEN Reply(m, f, [M0 EXCEPT !.error = "target offline", !.target = f.target])
         ELSE Reply(m, f, SentStatus(f.msg, f.target))
    [] f.pc = "route_sent" -> send_json(Goto(m, "route_acked"), f.msg, f.ws)
    [] f.pc = "route_acked" ->
         \* the acknowledgement is sent inside the try of the planner call
         IF m.exc
         THEN Reply([m EXCEPT !.exc = FALSE], f,
                    [M0 EXCEPT !.error = "Planning failed"])
         ELSE Goto(m, "continue")
    [] f.pc = "disconnected" -> OnDisconnect(m, f)
    [] f.pc = "end" -> [Pop(m) EXCEPT !.conn[f.ws] = "closed"]

\* ------------------------------------------------------ the HTTP operations
HttpFns == {"http_control", "clear_emergency", "disconnect_device_route",
            "broadcast", "connect_device"}

\* the response the route returns (or the HTTPException it raises); the
\* request is then over
Respond(m, msg) == Pop(Log(m, [E0 EXCEPT !.ev = "response", !.msg = msg]))

\* One synchronous stretch of an HTTP route; f.pkt is the request body.
HttpExec(m, f) ==
  CASE f.fn = "http_control" ->
         LET target == IF f.pkt.target = None THEN "all" ELSE f.pkt.target
             control_type == IF f.pkt.type = None THEN "manual_drive" ELSE f.pkt.type
             envelope == [M0 EXCEPT !.from = "http-client", !.action = "control",
                                    !.type = control_type,
                                    !.payload = f.pkt.payload]
         IN
         (CASE f.pc = "start" ->
                IF control_type = "emergency_stop"
                THEN emergency_broadcast_to_pis(Goto(m, "emerg_done"), envelope)
                ELSE IF target = "all"
                THEN broadcast_to_pis(Goto(m, "respond"), envelope)
                ELSE send_to_device(Goto(m, "sent"), target, envelope)
           [] f.pc = "emerg_done" ->
                broadcast_to_frontends(
                  SetTop(m, [f EXCEPT !.pc = "emerg_respond", !.cnt = m.ret.cnt,
                                      !.total = m.ret.total]),
                  [M0 EXCEPT !.action = "emergency_broadcast",
                             !.reached = m.ret.cnt, !.total = m.ret.total])
           [] f.pc = "emerg_respond" ->
                Respond(m, [M0 EXCEPT !.status = "emergency_sent",
                                      !.reached = f.cnt, !.total = f.total])
           [] f.pc = "sent" ->
                IF ~m.ret.ok
                THEN Respond(m, [M0 EXCEPT !.status = "404",
                                           !.error = "target not found"])
                ELSE Respond(m, [M0 EXCEPT !.status = "sent", !.target = target])
           [] f.pc = "respond" ->
                Respond(m, [M0 EXCEPT !.status = "sent", !.target = target]))
    [] f.fn = "clear_emergency" ->
         (CASE f.pc = "start" ->
                broadcast_to_frontends(
                  Goto([Section(m, "clear_emergency_status") EXCEPT
                          !.devices = clear_emergency_status(@, f.pkt.device_id),
                          !.tr = Append(@, [E0 EXCEPT
                                   !.ev = "clear", !.id = f.pkt.device_id,
                                   !.reg = m.devices,
                                   !.reg2 = clear_emergency_status(
                                              m.devices, f.pkt.device_id)])],
                       "respond"),
                  [M0 EXCEPT !.action = "emergency_cleared",
                             !.device_id = f.pkt.device_id])
           [] f.pc = "respond" ->
                Respond(m, [M0 EXCEPT !.status = "emergency_cleared",
                                      !.device_id = OrElse(f.pkt.device_id, "all")]))
    [] f.fn = "disconnect_device_route" ->
         (CASE f.pc = "start" ->
                IF f.pkt.device_id = None \/ f.pkt.device_id = ""
                THEN Respond(m, [M0 EXCEPT !.status = "error",
                                           !.error = "device_id required"])
                ELSE disconnect_device(Goto(m, "done"), f.pkt.device_id)
           [] f.pc = "done" ->
                Respond(m, [M0 EXCEPT !.status = "ok",
                                      !.device_id = f.pkt.device_id]))
    [] f.fn = "broadcast" ->
         (CASE f.pc = "start" ->
                \* lines 398-399: the body is forwarded as it is
                broadcast_json(Goto(m, "respond"),
                               [M0 EXCEPT !.action = f.pkt.action,
                                          !.type = f.pkt.type,
                                          !.device_id = f.pkt.device_id,
                                          !.role = f.pkt.role,
                                          !.target = f.pkt.target,
                                          !.payload = f.pkt.payload])
           [] f.pc = "respond" -> Respond(m, [M0 EXCEPT !.status = "ok"]))
    [] f.fn = "connect_device" ->
         \* lines 286-320: every connected pi other than the requested one,
         \* taken from the rows of list_devices, is disconnected by force
         (CASE f.pc = "start" ->
                IF f.pkt.device_id = None \/ f.pkt.device_id = ""
                   \/ ~f.pkt.discovered
                THEN Respond(m, [M0 EXCEPT !.status = "error",
                                           !.error = "Device not found"])
                ELSE LET rows == list_devices(m.devices)
                         others == Filter(rows,
                                     {r \in Range(rows) :
                                        /\ r.role = "pi"
                                        /\ r.device_id # f.pkt.device_id})
                     IN SetTop(Section(m, "list_devices"),
                               [f EXCEPT !.pc = "loop",
                                         !.list = [i \in 1..Len(others) |->
                                                     others[i].device_id]])
           [] f.pc = "loop" ->
                IF f.list # << >>
                THEN disconnect_device(Goto(m, "next"), Head(f.list))
                ELSE IF f.pkt.sendto
                THEN Respond(m, [M0 EXCEPT !.status = "ok",
                                           !.device_id = f.pkt.device_id])
                ELSE Respond(m, [M0 EXCEPT !.status = "error",
                                           !.error = "sendto failed"])
           [] f.pc = "next" -> SetTop(m, NextConn(f)))

\* ------------------------------------------------------------ running a task
RECURSIVE Run(_)
\* the task runs until it is suspended on the transport or has ended
Run(m) ==
  IF m.stk = << >> THEN m
  ELSE IF Top(m).pc \in WaitPcs THEN m
  ELSE IF Top(m).fn = "websocket_endpoint" THEN Run(HandlerExec(m, Top(m)))
  ELSE IF Top(m).fn \in HttpFns THEN Run(HttpExec(m, Top(m)))
  ELSE Run(ManagerExec(m, Top(m)))

\* --------------------------------------------------------------- the inputs
Ids == {"pi-01", "pi-02", "web-1", "web-2", "frontend-unknown", "pi-unknown"}

\* first frames
HsPi(id) == [P0 EXCEPT !.action = "handshake", !.role = "pi", !.device_id = id]
HsFrontend(id) ==
  [P0 EXCEPT !.action = "handshake", !.role = "frontend", !.device_id = id]
NotJson == [P0 EXCEPT !.json = FALSE]
NotObject == [P0 EXCEPT !.object = FALSE]

\* later frames
Telemetry(type, device_id) ==
  [P0 EXCEPT !.action = "telemetry", !.type = type, !.device_id = device_id]
Control(type, target, payload) ==
  [P0 EXCEPT !.action = "control", !.type = type, !.target = target,
             !.payload = payload]
Frame(action, type, device_id, target, payload) ==
  [P0 EXCEPT !.action = action, !.type = type, !.device_id = device_id,
             !.target = target, !.payload = payload]
EmptyObject == P0
Img == [k \in {"frame_b64"} |-> "jpeg"]
Bcast == [k \in {"broadcast"} |-> TRUE]
Text == [k \in {"text"} |-> "go"]

\* HTTP requests: action is the route, the other fields are the body
HttpControl(type, target) ==
  [P0 EXCEPT !.action = "http_control", !.type = type, !.target = target]
HttpClear(device_id) ==
  [P0 EXCEPT !.action = "clear_emergency", !.device_id = device_id]
HttpDisconnect(device_id) ==
  [P0 EXCEPT !.action = "disconnect_device_route", !.device_id = device_id]
\* POST /broadcast with the JSON object body
HttpBroadcast(body) == [body EXCEPT !.route = "broadcast"]
HttpConnect(device_id, discovered, sendto) ==
  [P0 EXCEPT !.action = "connect_device", !.device_id = device_id,
             !.discovered = discovered, !.sendto = sendto]

\* a call of plan_with_headings that has not been made
Pl0 == [pc |-> "idle", grid |-> << >>, start |-> << 0, 0 >>,
        goal |-> << 0, 0 >>, st |-> SearchInit(<< 0, 0 >>, << 0, 0 >>),
        error |-> "", path |-> << >>, waypoints |-> << >>]

\* ---------------------------------------------------------------- the state
VARIABLES
  devices,        \* manager.devices
  unregistered,   \* manager.unregistered
  conn,           \* per websocket: "new", "open" or "closed"
  stk,            \* per task: its call stack
  tr,             \* per task: the observations of its current operation
  clock,          \* inbound frames so far (stands for time.time())
  events,         \* events of the environment so far
  regBy,          \* history: per device_id, the websocket that registered it last
  stopSent,       \* history: websockets an emergency_stop was sent to
  discDone,       \* history: websockets disconnect() ran for
  lastConnected,  \* history: the << websocket, device_id >> whose latest device
                  \* event handed to the websocket is device_connected
  NAV_GRID,       \* the grid read from MAP_FILE at startup, or NoGrid
  pl,             \* a call of plan_with_headings: its arguments and locals
  lock,           \* manager.lock is held
  acc             \* per task: the table accesses of its current operation

vars == << devices, unregistered, conn, stk, tr, clock, events,
           regBy, stopSent, discDone, lastConnected, NAV_GRID, pl, lock,
           acc >>

Init ==
  /\ devices = << >>
  /\ unregistered = {}
  /\ conn = [w \in WS |-> "new"]
  /\ stk = [t \in Tasks |-> << >>]
  /\ tr = [t \in Tasks |-> << >>]
  /\ clock = 0
  /\ events = 0
  /\ regBy = [i \in Ids |-> None]
  /\ stopSent = {}
  /\ discDone = {}
  /\ lastConnected = {}
  /\ NAV_GRID = NoGrid
  /\ pl = Pl0
  /\ lock = FALSE
  /\ acc = [t \in Tasks |-> {}]

\* the machine of a task in the current state, entering with stack s,
\* observations o and table accesses a at time now
Machine(s, o, a, now) ==
  [stk |-> s, tr |-> o, acc |-> a, devices |-> devices,
   unregistered |-> unregistered, conn |-> conn, clock |-> now,
   regBy |-> regBy, stopSent |-> stopSent, discDone |-> discDone,
   lastConnected |-> lastConnected,
   NAV_GRID |-> NAV_GRID, lock |-> lock, ret |-> R0, exc |-> FALSE]

\* task t has run to its next suspension, leaving machine m
Commit(t, m) ==
  /\ stk' = [stk EXCEPT ![t] = m.stk]
  /\ tr' = [tr EXCEPT ![t] = m.tr]
  /\ devices' = m.devices
  /\ unregistered' = m.unregistered
  /\ conn' = m.conn
  /\ clock' = m.clock
  /\ regBy' = m.regBy
  /\ stopSent' = m.stopSent
  /\ discDone' = m.discDone
  /\ lastConnected' = m.lastConnected
  /\ lock' = m.lock
  /\ acc' = [acc EXCEPT ![t] = m.acc]
  /\ UNCHANGED << NAV_GRID, pl >>

AtPc(t, pcs) == stk[t] # << >> /\ stk[t][Len(stk[t])].pc \in pcs

\* A client opens connection w and accept() completes: manager.connect adds w
\* to unregistered and the handler awaits the first frame.  (Nothing refers
\* to w between the arrival of the connection and this point.)
Connect(w) ==
  /\ conn[w] = "new"
  /\ events < MaxEvents
  /\ events' = events + 1
  /\ Commit(w, [Section(Machine(<< [F0 EXCEPT !.fn = "websocket_endpoint",
                                              !.pc = "receive_hs", !.ws = w,
                                              !.role = "unknown"] >>,
                                << >>, {}, clock),
                        "connect")
                  EXCEPT !.conn[w] = "open",
                         !.unregistered = connect_lock(@, w)])

\* the first frame of w arrives; it is one of hs
Handshake(w, hs) ==
  /\ AtPc(w, {"receive_hs"})
  /\ conn[w] = "open"
  /\ events < MaxEvents
  /\ events' = events + 1
  /\ \E p \in hs :
       Commit(w, Run(Machine(<< [stk[w][1] EXCEPT !.pc = "handshake", !.pkt = p] >>,
                             << [E0 EXCEPT !.ev = "frame", !.ws = w, !.pkt = p,
                                           !.role = stk[w][1].role,
                                           !.reg = devices,
                                           !.at = clock + 1] >>,
                             {}, clock + 1)))

\* a later frame of w arrives; it is one of ps
Receive(w, ps) ==
  /\ AtPc(w, {"receive"})
  /\ conn[w] = "open"
  /\ events < MaxEvents
  /\ events' = events + 1
  /\ \E p \in ps :
       Commit(w, Run(Machine(<< [stk[w][1] EXCEPT !.pc = "dispatch", !.pkt = p] >>,
                             << [E0 EXCEPT !.ev = "frame", !.ws = w, !.pkt = p,
                                           !.role = stk[w][1].role,
                                           !.reg = devices,
                                           !.at = clock + 1] >>,
                             {}, clock + 1)))

\* receive_text() raises because the connection is closed
ReceiveClosed(w) ==
  /\ AtPc(w, {"receive_hs", "receive"})
  /\ conn[w] = "closed"
  /\ Commit(w, Run(Machine(<< [stk[w][1] EXCEPT !.pc = "disconnected"] >>,
                           << >>, {}, clock)))
  /\ UNCHANGED events

\* the peer closes connection w, or the connection breaks
RemoteClose(w) ==
  /\ conn[w] = "open"
  /\ events < MaxEvents
  /\ events' = events + 1
  /\ conn' = [conn EXCEPT ![w] = "closed"]
  /\ UNCHANGED << devices, unregistered, stk, tr, clock, regBy, stopSent,
                  discDone, lastConnected, NAV_GRID, pl, lock, acc >>

\* a send of task t completes: send_json returns, or raises if the send failed
SendDone(t) ==
  /\ AtPc(t, {"await_send"})
  /\ Commit(t, Run([Pop(Machine(stk[t], tr[t], acc[t], clock))
                    EXCEPT !.exc = ~stk[t][Len(stk[t])].ok]))
  /\ UNCHANGED events

\* ws.close() of disconnect_device completes
CloseDone(t) ==
  /\ AtPc(t, {"await_close"})
  /\ Commit(t, Run(Goto(Machine(stk[t], tr[t], acc[t], clock), "closed")))
  /\ UNCHANGED events

\* an HTTP request arrives; it is one of rs
HttpRequest(h, rs) ==
  /\ stk[h] = << >>
  /\ events < MaxEvents
  /\ events' = events + 1
  /\ \E r \in rs :
       Commit(h, Run(Machine(<< [F0 EXCEPT !.fn = OrElse(r.route, r.action),
                                           !.pc = "start",
                                           !.pkt = r] >>,
                             << [E0 EXCEPT !.ev = "request", !.pkt = r,
                                           !.reg = devices] >>,
                             {}, clock)))

\* ------------------------------------------------------------ specifications
\* Spec, emergency stop: two pis that may claim the same device_id and one
\* frontend; emergency_stop by frame and over HTTP, acknowledgments.
HsE == [w \in WS |->
          IF w = "w1" THEN {HsPi("pi-01")}
          ELSE IF w = "w2" THEN {HsPi("pi-01"), HsPi("pi-02")}
          ELSE {HsFrontend("web-1")}]
PacketsE == { Control("emergency_stop", None, EmptyDict),
              Control("emergency_stop", "pi-01", EmptyDict),
              Telemetry("emergency_ack", None),
              Telemetry("emergency_ack", "pi-02") }
HttpE == { HttpControl("emergency_stop", None),
           HttpControl("emergency_stop", "pi-02") }

Next ==
  \/ \E w \in WS : Connect(w)
  \/ \E w \in WS : Handshake(w, HsE[w])
  \/ \E w \in WS : Receive(w, PacketsE)
  \/ \E w \in WS : ReceiveClosed(w)
  \/ \E w \in WS : RemoteClose(w)
  \/ \E t \in Tasks : SendDone(t)
  \/ \E h \in HTTP : HttpRequest(h, HttpE)

Spec == Init /\ [][Next]_vars

\* SpecC, control routing: one pi, two frontends; control messages with a
\* target that is missing, offline, registered or "all", and with the
\* broadcast flag.
HsC == [w \in WS |->
          IF w = "w1" THEN {HsPi("pi-01")}
          ELSE IF w = "w2" THEN {HsFrontend("web-2")}
          ELSE {HsFrontend("web-1")}]
PacketsC == { Control("manual_drive", None, EmptyDict),
              Control("manual_drive", "pi-02", EmptyDict),
              Control("manual_drive", "pi-01", EmptyDict),
              Control("manual_drive", None, Bcast),
              Control("manual_drive", "pi-02", Bcast),
              Control("quick_command", "pi-02", Text),
              Control("quick_command", "pi-02", EmptyDict),
              Control("auto_route_start", None, EmptyDict),
              Control("request_route", None, EmptyDict),
              Control("request_route", "pi-02", EmptyDict) }
HttpC == { HttpControl("manual_drive", "pi-02"),
           HttpControl("manual_drive", "pi-01"),
           HttpControl("manual_drive", None) }

NextC ==
  \/ \E w \in WS : Connect(w)
  \/ \E w \in WS : Handshake(w, HsC[w])
  \/ \E w \in WS : Receive(w, PacketsC)
  \/ \E w \in WS : ReceiveClosed(w)
  \/ \E w \in WS : RemoteClose(w)
  \/ \E t \in Tasks : SendDone(t)
  \/ \E h \in HTTP : HttpRequest(h, HttpC)

SpecC == Init /\ [][NextC]_vars

\* SpecR, the registry: endpoints that register, collide on a device_id,
\* disconnect, are disconnected by force and fail to be sent to.
HsR == [w \in WS |->
          IF w = "w1" THEN {HsPi("pi-01")}
          ELSE IF w = "w2" THEN {HsPi("pi-01"), HsFrontend("web-2")}
          ELSE {HsFrontend("web-1")}]
PacketsR == { Telemetry("camera_frame", None) }
HttpR == { HttpDisconnect("pi-01"), HttpControl("manual_drive", "pi-01"),
           HttpConnect("pi-02", TRUE, TRUE), HttpConnect("pi-02", FALSE, TRUE) }

NextR ==
  \/ \E w \in WS : Connect(w)
  \/ \E w \in WS : Handshake(w, HsR[w])
  \/ \E w \in WS : Receive(w, PacketsR)
  \/ \E w \in WS : ReceiveClosed(w)
  \/ \E w \in WS : RemoteClose(w)
  \/ \E t \in Tasks : SendDone(t)
  \/ \E t \in Tasks : CloseDone(t)
  \/ \E h \in HTTP : HttpRequest(h, HttpR)

SpecR == Init /\ [][NextR]_vars

\* SpecF, fan-out and failed sends: a pi, a frontend and an endpoint that is
\* either; camera frames, and over HTTP an emergency stop, control
\* messages to all pis and to one device, and a camera frame broadcast to
\* every connection.
HsF == [w \in WS |->
          IF w = "w1" THEN {HsPi("pi-01")}
          ELSE IF w = "w2" THEN {HsPi("pi-02"), HsFrontend("web-2")}
          ELSE {HsFrontend("web-1")}]
PacketsF == { Telemetry("camera_frame", None) }
HttpF == { HttpControl("emergency_stop", None),
           HttpControl("manual_drive", None),
           HttpControl("manual_drive", "pi-01"),
           HttpBroadcast([Frame("telemetry", "camera_frame", "pi-01", None, Img)
                            EXCEPT !.role = "pi"]) }

NextF ==
  \/ \E w \in WS : Connect(w)
  \/ \E w \in WS : Handshake(w, HsF[w])
  \/ \E w \in WS : Receive(w, PacketsF)
  \/ \E w \in WS : ReceiveClosed(w)
  \/ \E w \in WS : RemoteClose(w)
  \/ \E t \in Tasks : SendDone(t)
  \/ \E h \in HTTP : HttpRequest(h, HttpF)

SpecF == Init /\ [][NextF]_vars

\* SpecM, message handling: a pi, a frontend whose handshake may be
\* malformed and an endpoint that is either; frames that are not JSON, that
\* lack the action, that carry another device_id or a role, microphone
\* messages, and control and telemetry from either role.
HsM == [w \in WS |->
          IF w = "w1" THEN {HsPi("pi-01")}
          ELSE IF w = "w2" THEN {HsPi("pi-02"), HsFrontend("web-2")}
          ELSE {NotJson, HsFrontend("web-1")}]
PacketsM == { NotJson,
              EmptyObject,
              Frame("telemetry", "camera_frame", None, None, Img),
              Frame("telemetry", "camera_frame", "web-1", None, Img),
              [Frame("telemetry", "status", None, None, EmptyDict)
                 EXCEPT !.role = "pi"],
              Frame("microphone_open", None, None, None, EmptyDict),
              Control("microphone_open", None, EmptyDict),
              Control("manual_drive", "pi-01", EmptyDict) }

NextM ==
  \/ \E w \in WS : Connect(w)
  \/ \E w \in WS : Handshake(w, HsM[w])
  \/ \E w \in WS : Receive(w, PacketsM)
  \/ \E w \in WS : ReceiveClosed(w)
  \/ \E w \in WS : RemoteClose(w)
  \/ \E t \in Tasks : SendDone(t)

SpecM == Init /\ [][NextM]_vars

\* --- clearing the emergency state: two pis or a pi and a frontend, an
\* emergency stop that raises the flags, and clear requests for all, for
\* pi-01 and for an id nobody registers.
HsK == [w \in WS |->
          IF w = "w1" THEN {HsPi("pi-01")}
          ELSE IF w = "w2" THEN {HsPi("pi-02"), HsFrontend("web-2")}
          ELSE {HsFrontend("web-1")}]
PacketsK == { Telemetry("camera_frame", None) }
HttpK == { HttpControl("emergency_stop", None), HttpClear(None),
           HttpClear("pi-01"), HttpClear("pi-unknown") }

NextK ==
  \/ \E w \in WS : Connect(w)
  \/ \E w \in WS : Handshake(w, HsK[w])
  \/ \E w \in WS : Receive(w, PacketsK)
  \/ \E w \in WS : ReceiveClosed(w)
  \/ \E w \in WS : RemoteClose(w)
  \/ \E t \in Tasks : SendDone(t)
  \/ \E h \in HTTP : HttpRequest(h, HttpK)

SpecK == Init /\ [][NextK]_vars

\* --- a pi that comes and goes while two frontends watch: the server is in
\* the state it has after the frontends web-1 (on w3) and web-2 (on w2) have
\* connected and registered, one after the other; then pi-01 connects on w1
\* and is disconnected by force, or fails to be sent a control message, and
\* connections are closed by their peers.  The event count starts at 0 in
\* that state.
\* RegisteredO is the entry register makes, HandlerO the handler of a
\* frontend after its handshake, awaiting the next frame, HandshakeO the
\* observations of that handshake (before: the table when the frame arrived,
\* after: the table when register left the lock)
InitO ==
  LET
      RegisteredO(w, id, now) ==
        [device_id |-> id, ws |-> w, role |-> "frontend", meta |-> EmptyDict,
         last_seen |-> now, emergency |-> FALSE]
      HandlerO(w, id) ==
        << [F0 EXCEPT !.fn = "websocket_endpoint", !.pc = "receive", !.ws = w,
                      !.device_id = id, !.role = "frontend",
                      !.pkt = HsFrontend(id)] >>
      HandshakeO(w, id, before, after, now) ==
        << [E0 EXCEPT !.ev = "frame", !.ws = w, !.pkt = HsFrontend(id),
                      !.role = "unknown", !.reg = before, !.at = now],
           [E0 EXCEPT !.ev = "register", !.ws = w, !.id = id, !.role = "frontend",
                      !.reg = after],
           [E0 EXCEPT !.ev = "send", !.ws = w, !.at = now,
                      !.msg = [M0 EXCEPT !.status = "connected", !.device_id = id,
                                         !.role = "frontend"]] >>
  IN
  /\ devices = << RegisteredO("w3", "web-1", 1), RegisteredO("w2", "web-2", 2) >>
  /\ unregistered = {}
  /\ conn = [w \in WS |-> IF w = "w1" THEN "new" ELSE "open"]
  /\ stk = [t \in Tasks |->
              IF t = "w3" THEN HandlerO("w3", "web-1")
              ELSE IF t = "w2" THEN HandlerO("w2", "web-2")
              ELSE << >>]
  /\ tr = [t \in Tasks |->
             IF t = "w3"
             THEN HandshakeO("w3", "web-1", << >>,
                             << RegisteredO("w3", "web-1", 1) >>, 1)
             ELSE IF t = "w2"
             THEN HandshakeO("w2", "web-2",
                             << RegisteredO("w3", "web-1", 1) >>,
                             << RegisteredO("w3", "web-1", 1),
                                RegisteredO("w2", "web-2", 2) >>, 2)
             ELSE << >>]
  /\ clock = 2
  /\ events = 0
  /\ regBy = [i \in Ids |-> IF i = "web-1" THEN "w3"
                            ELSE IF i = "web-2" THEN "w2" ELSE None]
  /\ stopSent = {}
  /\ discDone = {}
  /\ lastConnected = {}
  /\ NAV_GRID = NoGrid
  /\ pl = Pl0
  /\ lock = FALSE
  /\ acc = [t \in Tasks |->
              IF t \in {"w2", "w3"} THEN {[site |-> "register", locked |-> TRUE]}
              ELSE {}]

NextO ==
  \/ \E w \in WS : Connect(w)
  \/ \E w \in WS : Handshake(w, {HsPi("pi-01")})
  \/ \E w \in WS : ReceiveClosed(w)
  \/ \E w \in WS : RemoteClose(w)
  \/ \E t \in Tasks : SendDone(t)
  \/ \E t \in Tasks : CloseDone(t)
  \/ \E h \in HTTP : HttpRequest(h, { HttpDisconnect("pi-01"),
                                      HttpControl("manual_drive", "pi-01") })

SpecO == InitO /\ [][NextO]_vars

\* --- fan-out to failing frontends with no registration arriving: from the
\* state with the frontends web-1 and web-2 registered, connections are
\* closed by their peers, the handlers notice it, and clear-emergency
\* requests start broadcast_to_frontends.  Fairness: a send that was started
\* completes (the transport sends the frame or reports the failure).
NextT ==
  \/ \E w \in WS : ReceiveClosed(w)
  \/ \E w \in WS : RemoteClose(w)
  \/ \E t \in Tasks : SendDone(t)
  \/ \E h \in HTTP : HttpRequest(h, {HttpClear(None)})

\* The fairness is WF_vars(SendDone(t)), with ENABLED << SendDone(t) >>_vars
\* written as the state predicate it equals: task t is suspended in a send
SpecT ==
  /\ InitO /\ [][NextT]_vars
  /\ \A t \in Tasks : \/ []<>(~AtPc(t, {"await_send"}))
                       \/ []<><< SendDone(t) >>_vars

\* --- an emergency stop while a device_id changes hands: pi-01 registers on
\* w1, the endpoint w2 registers as frontend under the device_id pi-01 or as
\* the pi pi-02, w3 is the frontend web-1; emergency stops arrive over HTTP
\* and pis acknowledge them.
HsG == [w \in WS |->
          IF w = "w1" THEN {HsPi("pi-01")}
          ELSE IF w = "w2" THEN {HsFrontend("pi-01"), HsPi("pi-02")}
          ELSE {HsFrontend("web-1")}]

NextG ==
  \/ \E w \in WS : Connect(w)
  \/ \E w \in WS : Handshake(w, HsG[w])
  \/ \E w \in WS : Receive(w, {Telemetry("emergency_ack", None)})
  \/ \E w \in WS : ReceiveClosed(w)
  \/ \E w \in WS : RemoteClose(w)
  \/ \E t \in Tasks : SendDone(t)
  \/ \E h \in HTTP : HttpRequest(h, {HttpControl("emergency_stop", None)})

SpecG == Init /\ [][NextG]_vars

\* --- control messages that name a frontend: one pi and two frontends;
\* control frames whose target is the other frontend, the sender itself or
\* the pi, and a control request over HTTP that names a frontend.
NextN ==
  \/ \E w \in WS : Connect(w)
  \/ \E w \in WS : Handshake(w, HsC[w])
  \/ \E w \in WS : Receive(w, { Control("manual_drive", "web-1", EmptyDict),
                                  Control("quick_command", "web-2", Text),
                                  Control("manual_drive", "pi-01", EmptyDict) })
  \/ \E w \in WS : ReceiveClosed(w)
  \/ \E w \in WS : RemoteClose(w)
  \/ \E t \in Tasks : SendDone(t)
  \/ \E h \in HTTP : HttpRequest(h, {HttpControl("manual_drive", "web-1")})

SpecN == Init /\ [][NextN]_vars

\* --- the ends of a handler: a pi that may send a handshake that is no JSON
\* object, an endpoint that is a pi or a frontend, and a frontend; frames that
\* are no JSON object; forced disconnects and control messages over HTTP.
HsD == [w \in WS |->
          IF w = "w1" THEN {HsPi("pi-01"), NotObject}
          ELSE IF w = "w2" THEN {HsPi("pi-02"), HsFrontend("web-2")}
          ELSE {HsFrontend("web-1")}]

NextD ==
  \/ \E w \in WS : Connect(w)
  \/ \E w \in WS : Handshake(w, HsD[w])
  \/ \E w \in WS : Receive(w, {NotObject, Telemetry("camera_frame", None)})
  \/ \E w \in WS : ReceiveClosed(w)
  \/ \E w \in WS : RemoteClose(w)
  \/ \E t \in Tasks : SendDone(t)
  \/ \E t \in Tasks : CloseDone(t)
  \/ \E h \in HTTP : HttpRequest(h, HttpR)

SpecD == Init /\ [][NextD]_vars

\* --- an emergency stop and its acknowledgment: two pis and a frontend;
\* the stop is requested over HTTP only, the frames are acknowledgments.
HsQ == [w \in WS |->
          IF w = "w1" THEN {HsPi("pi-01")}
          ELSE IF w = "w2" THEN {HsPi("pi-02")}
          ELSE {HsFrontend("web-1")}]
PacketsQ == { Telemetry("emergency_ack", None) }
HttpQ == { HttpControl("emergency_stop", None) }

NextQ ==
  \/ \E w \in WS : Connect(w)
  \/ \E w \in WS : Handshake(w, HsQ[w])
  \/ \E w \in WS : Receive(w, PacketsQ)
  \/ \E w \in WS : ReceiveClosed(w)
  \/ \E w \in WS : RemoteClose(w)
  \/ \E t \in Tasks : SendDone(t)
  \/ \E h \in HTTP : HttpRequest(h, HttpQ)

SpecQ == Init /\ [][NextQ]_vars

\* --- the planner on its own: plan_with_headings is called on a grid of one
\* of the shapes below with at most MaxWalls walls, from and to any cell of
\* the 3x3 window or a cell with a negative coordinate; for the shapes with 2
\* rows or 2 columns the window holds cells beyond the last row or column.
Shapes == { << 1, 1 >>, << 2, 3 >>, << 3, 2 >>, << 3, 3 >> }

Walls(g) ==
  Cardinality({ rc \in (1..Len(g)) \X (1..Len(g[1])) : g[rc[1]][rc[2]] = 1 })

Grids ==
  UNION { { g \in [1..sh[1] -> [1..sh[2] -> {0, 1}]] : Walls(g) <= MaxWalls }
          : sh \in Shapes }

Nodes == ((0..2) \X (0..2)) \cup { << 0 - 1, 0 >>, << 0, 0 - 1 >> }

InitA ==
  /\ devices = << >>
  /\ unregistered = {}
  /\ conn = [w \in WS |-> "new"]
  /\ stk = [t \in Tasks |-> << >>]
  /\ tr = [t \in Tasks |-> << >>]
  /\ clock = 0
  /\ events = 0
  /\ regBy = [i \in Ids |-> None]
  /\ stopSent = {}
  /\ discDone = {}
  /\ lastConnected = {}
  /\ NAV_GRID = NoGrid
  /\ lock = FALSE
  /\ acc = [t \in Tasks |-> {}]
  /\ \E g \in Grids : \E s \in Nodes : \E t \in Nodes :
       pl = [Pl0 EXCEPT !.pc = "call", !.grid = g, !.start = s, !.goal = t]

\* astar is entered: the checks of lines 121-128, then the locals
PlanCall ==
  /\ pl.pc = "call"
  /\ pl' = IF AstarError(pl.grid, pl.start, pl.goal) # ""
           THEN [pl EXCEPT !.pc = "raised",
                           !.error = AstarError(pl.grid, pl.start, pl.goal)]
           ELSE [pl EXCEPT !.pc = "search",
                           !.st = SearchInit(pl.start, pl.goal)]
  /\ UNCHANGED << devices, unregistered, conn, stk, tr, clock, events, regBy,
                  stopSent, discDone, lastConnected, NAV_GRID, lock, acc >>

\* one pass through the loop of astar, or its return
PlanSearch ==
  /\ pl.pc = "search"
  /\ LET st == SearchStep(pl.grid, pl.st, pl.goal) IN
       pl' = IF st.done
             THEN [pl EXCEPT !.pc = "returned", !.st = st, !.path = st.path]
             ELSE [pl EXCEPT !.st = st]
  /\ UNCHANGED << devices, unregistered, conn, stk, tr, clock, events, regBy,
                  stopSent, discDone, lastConnected, NAV_GRID, lock, acc >>

\* plan_with_headings converts the path astar returned
PlanHeadings ==
  /\ pl.pc = "returned"
  /\ pl' = [pl EXCEPT !.pc = "done",
                      !.waypoints = waypoints_with_headings(pl.path)]
  /\ UNCHANGED << devices, unregistered, conn, stk, tr, clock, events, regBy,
                  stopSent, discDone, lastConnected, NAV_GRID, lock, acc >>

NextA == PlanCall \/ PlanSearch \/ PlanHeadings

SpecA == InitA /\ [][NextA]_vars

\* --- the search loop on larger grids: astar is called on a 4x4 grid with at
\* most MaxWalls walls, from one of four cells to one of three; among
\* them are the grids where a cell is pushed twice before it is expanded
\* (000./..../..1./.... with the goal walled in at a corner).
InitS ==
  /\ devices = << >>
  /\ unregistered = {}
  /\ conn = [w \in WS |-> "new"]
  /\ stk = [t \in Tasks |-> << >>]
  /\ tr = [t \in Tasks |-> << >>]
  /\ clock = 0
  /\ events = 0
  /\ regBy = [i \in Ids |-> None]
  /\ stopSent = {}
  /\ discDone = {}
  /\ lastConnected = {}
  /\ NAV_GRID = NoGrid
  /\ lock = FALSE
  /\ acc = [t \in Tasks |-> {}]
  /\ \E g \in { x \in [1..4 -> [1..4 -> {0, 1}]] : Walls(x) <= MaxWalls } :
     \E s \in { << 2, 3 >>, << 3, 2 >>, << 1, 1 >>, << 0, 0 >> } :
     \E t \in { << 0, 0 >>, << 3, 3 >>, << 1, 2 >> } :
       pl = [Pl0 EXCEPT !.pc = "call", !.grid = g, !.start = s, !.goal = t]

SpecS == InitS /\ [][NextA]_vars

\* --- route planning: the server starts without a map or with Grid3; one pi
\* and two frontends; route requests that succeed, whose goal is outside the
\* map, cut off, unknown, whose target is offline or missing, and that name
\* their own start; the pi reports its location.
\* Grid3 is read_grid of the lines 001, 001, 110.
Grid3 == << << 0, 0, 1 >>, << 0, 0, 1 >>, << 1, 1, 0 >> >>

Dest(d) == [k \in {"destination"} |-> d]
DestFrom(d, s) == [k \in {"destination", "start_location"} |->
                     IF k = "destination" THEN d ELSE s]
Loc(l) == [k \in {"location"} |-> l]
Route(target, payload) == Control("request_route", target, payload)

HsP == [w \in WS |->
          IF w = "w1" THEN {HsPi("pi-01")}
          ELSE IF w = "w2" THEN {HsFrontend("web-2")}
          ELSE {HsFrontend("web-1")}]
PacketsP == { Route("pi-01", Dest(DestName("Kitchen"))),
              Route("pi-01", Dest(DestName("living_room"))),
              Route("pi-01", Dest(DestList(<< 2, 2 >>))),
              Route("pi-01", Dest(DestName("attic"))),
              Route("pi-02", Dest(DestName("kitchen"))),
              Route(None, Dest(DestName("kitchen"))),
              Route("pi-01", DestFrom(DestList(<< 0, 1 >>), << 1, 1 >>)),
              Frame("telemetry", "status", None, None, Loc(<< 1, 0 >>)) }

InitP ==
  /\ devices = << >>
  /\ unregistered = {}
  /\ conn = [w \in WS |-> "new"]
  /\ stk = [t \in Tasks |-> << >>]
  /\ tr = [t \in Tasks |-> << >>]
  /\ clock = 0
  /\ events = 0
  /\ regBy = [i \in Ids |-> None]
  /\ stopSent = {}
  /\ discDone = {}
  /\ lastConnected = {}
  /\ NAV_GRID \in {NoGrid, Grid3}
  /\ pl = Pl0
  /\ lock = FALSE
  /\ acc = [t \in Tasks |-> {}]

NextP ==
  \/ \E w \in WS : Connect(w)
  \/ \E w \in WS : Handshake(w, HsP[w])
  \/ \E w \in WS : Receive(w, PacketsP)
  \/ \E w \in WS : ReceiveClosed(w)
  \/ \E w \in WS : RemoteClose(w)
  \/ \E t \in Tasks : SendDone(t)

SpecP == InitP /\ [][NextP]_vars

\* ------------------------------------------------------------- properties
\* task t is between operations: its handler awaits a frame, or it has ended
Idle(t) == stk[t] = << >> \/ AtPc(t, {"receive_hs", "receive"})

Events(t) == { tr[t][i] : i \in 1..Len(tr[t]) }

\* the emergency_stop sends among the observations of task t
StopSends(t) ==
  { e \in Events(t) : e.ev = "send" /\ e.msg.action = "control"
                      /\ e.msg.type = "emergency_stop" }

\* the entries with role pi of a table
PiEntries(reg) == { e \in Range(reg) : e.role = "pi" }
FrontendEntries(reg) == { e \in Range(reg) : e.role = "frontend" }

\* the operation of task t was an emergency_stop, by frame or over HTTP
IsEmergencyOp(t) ==
  /\ tr[t] # << >>
  /\ tr[t][1].ev \in {"frame", "request"}
  /\ tr[t][1].pkt.type = "emergency_stop"
  /\ \E e \in Events(t) : e.ev = "emergency"

\* C1: once an emergency_stop has been processed, the endpoints a send of it
\* was attempted to are exactly the endpoints of the pi entries that were in
\* the registry when the broadcast started, whatever the target field said.
C1_EmergencyReachesEveryPi ==
  \A t \in Tasks :
    (Idle(t) /\ IsEmergencyOp(t)) =>
      \A s \in Events(t) : s.ev = "emergency" =>
        { e.ws : e \in StopSends(t) } = { e.ws : e \in PiEntries(s.reg) }

\* an emergency_stop naming one target was processed while two pis were
\* registered, and both were sent it
C1_Witness ==
  \E t \in Tasks :
    /\ Idle(t) /\ IsEmergencyOp(t)
    /\ tr[t][1].pkt.target \in {"pi-01", "pi-02"}
    /\ \E s \in Events(t) :
         s.ev = "emergency" /\ Cardinality(PiEntries(s.reg)) = 2
    /\ Cardinality(StopSends(t)) = 2

\* the (devices_reached, total_devices) an emergency operation reported: in
\* the reply frame or in the HTTP response
Reports(t) ==
  { e \in Events(t) : e.ev \in {"send", "response"}
                      /\ e.msg.status = "emergency_sent" }

\* C2: the report of an emergency broadcast has total_devices = the number
\* of pi entries in the snapshot and devices_reached = the number of those
\* whose send did not fail; an endpoint whose send failed has no entry left.
C2_EmergencyCounts ==
  \A t \in Tasks :
    (Idle(t) /\ IsEmergencyOp(t)) =>
      /\ \A s \in Events(t) : s.ev = "emergency" =>
           \A r \in Reports(t) :
             /\ r.msg.total = Cardinality(PiEntries(s.reg))
             /\ r.msg.reached = Cardinality({ e \in StopSends(t) : e.ok })
             /\ 0 <= r.msg.reached /\ r.msg.reached <= r.msg.total
      /\ \A e \in StopSends(t) :
           ~e.ok => \A d \in Range(devices) : d.ws # e.ws
      /\ (stk[t] = << >> /\ t \in HTTP) => Reports(t) # {}

\* a broadcast to two pis of which one send failed was reported as 1 of 2
C2_Witness ==
  \E t \in Tasks :
    /\ Idle(t) /\ IsEmergencyOp(t)
    /\ \E r \in Reports(t) : r.msg.reached = 1 /\ r.msg.total = 2
    /\ \E e \in StopSends(t) : ~e.ok

\* C3 (as claimed): an entry has its emergency flag set only if an
\* emergency_stop was sent to the entry's endpoint.
C3_FlagOnlyOnSentEndpoints ==
  \A d \in Range(devices) : d.emergency => d.ws \in stopSent

\* C4 (as claimed): handling an emergency_ack from the pi on endpoint w
\* clears the flag of the entry bound to w and changes no other entry.
C4_AckClearsSenderOnly ==
  \A w \in WS : \A c \in Events(w) :
    c.ev = "clear" =>
      /\ Len(c.reg2) = Len(c.reg)
      /\ \A i \in 1..Len(c.reg) :
           c.reg2[i].emergency =
             (IF c.reg[i].ws = w THEN FALSE ELSE c.reg[i].emergency)

\* the positions of the sends to websocket w among the observations of t
SendsTo(t, w) == { i \in 1..Len(tr[t]) : tr[t][i].ev = "send" /\ tr[t][i].ws = w }
\* the positions of the sends to websockets other than w
SendsElsewhere(t, w) ==
  { i \in 1..Len(tr[t]) : tr[t][i].ev = "send" /\ tr[t][i].ws # w }

\* the target a control frame resolves to: packet-level, else payload-level
TargetOf(pkt) == OrElse(pkt.target, Get(pkt.payload, "target", None))

\* endpoint w has finished a non-emergency control frame sent as a frontend
\* whose target is missing or names a device id not registered at that time
UnroutableFrame(w) ==
  /\ Idle(w) /\ tr[w] # << >>
  /\ tr[w][1].ev = "frame" /\ tr[w][1].role = "frontend"
  /\ tr[w][1].pkt.json /\ tr[w][1].pkt.action = "control"
  /\ tr[w][1].pkt.type # "emergency_stop"
  /\ TargetOf(tr[w][1].pkt) # "all"
  /\ TargetOf(tr[w][1].pkt) \notin DeviceIds(tr[w][1].reg)

\* HTTP task h has finished a non-emergency control request naming a target
\* that was not registered
UnroutableRequest(h) ==
  /\ stk[h] = << >> /\ tr[h] # << >>
  /\ tr[h][1].ev = "request" /\ tr[h][1].pkt.action = "http_control"
  /\ tr[h][1].pkt.type # "emergency_stop"
  /\ tr[h][1].pkt.target \notin {None, "all"}
  /\ tr[h][1].pkt.target \notin DeviceIds(tr[h][1].reg)

\* exactly one reply, an error, went to the sender, nothing went to anybody
\* else, and the operation did not disconnect the sender
OneErrorNothingForwarded(w) ==
  /\ Cardinality(SendsTo(w, w)) = 1
  /\ \A i \in SendsTo(w, w) : tr[w][i].msg.error # None
  /\ SendsElsewhere(w, w) = {}
  /\ \A e \in Events(w) : e.ev # "disconnect"
  /\ stk[w] # << >>

ErrorResultNothingForwarded(h) ==
  /\ \E e \in Events(h) : e.ev = "response" /\ e.msg.error # None
  /\ \A e \in Events(h) : e.ev # "send"

\* C5 (as claimed): a non-emergency control message whose target is missing
\* or not registered yields exactly one error reply to the sender and nothing
\* forwarded, and the sender stays registered; over HTTP a named target that
\* is not connected gives an error result and nothing forwarded.
C5_UnroutableControlGetsOneError ==
  /\ \A w \in WS : UnroutableFrame(w) => OneErrorNothingForwarded(w)
  /\ \A h \in HTTP : UnroutableRequest(h) => ErrorResultNothingForwarded(h)

\* C5 (amended): the same, for messages whose payload does not set the
\* broadcast flag.
C5_UnroutableControlNoBroadcastFlag ==
  /\ \A w \in WS :
       (UnroutableFrame(w) /\ ~Get(tr[w][1].pkt.payload, "broadcast", FALSE))
         => OneErrorNothingForwarded(w)
  /\ \A h \in HTTP : UnroutableRequest(h) => ErrorResultNothingForwarded(h)

\* a frontend named an offline target while a pi was registered, and got its
\* one error reply
C5_Witness ==
  \E w \in WS :
    /\ UnroutableFrame(w) /\ ~Get(tr[w][1].pkt.payload, "broadcast", FALSE)
    /\ tr[w][1].pkt.target = "pi-02"
    /\ tr[w][1].pkt.type = "manual_drive"
    /\ PiEntries(tr[w][1].reg) # {}
    /\ OneErrorNothingForwarded(w)

\* C6: the table holds one entry per device_id, bound to the endpoint that
\* registered the id last, and list_devices never returns more rows than
\* there are distinct device ids registered so far.
C6_OneEntryPerDeviceId ==
  /\ \A i, j \in 1..Len(devices) :
       i # j => devices[i].device_id # devices[j].device_id
  /\ \A i \in 1..Len(devices) : devices[i].ws = regBy[devices[i].device_id]
  /\ Len(list_devices(devices)) <= Cardinality({ id \in Ids : regBy[id] # None })

\* both w1 and w2 registered pi-01; the entry is there, bound to one of them
C6_Witness ==
  /\ \A w \in {"w1", "w2"} :
       /\ AtPc(w, {"receive"})
       /\ stk[w][1].device_id = "pi-01"
  /\ Has(devices, "pi-01")
  /\ regBy["pi-01"] = "w1"

\* C7: at most one entry references any given endpoint.
C7_OneEntryPerEndpoint ==
  \A i, j \in 1..Len(devices) : i # j => devices[i].ws # devices[j].ws

\* two entries are registered after an endpoint was disconnected
C7_Witness == Len(devices) >= 2 /\ discDone # {}

\* C8: no endpoint is both unregistered and bound to an entry, and no
\* message is sent to an endpoint that is in the unregistered set.
C8_UnregisteredHasNoIdentity ==
  /\ \A i \in 1..Len(devices) : devices[i].ws \notin unregistered
  /\ \A t \in Tasks : \A e \in Events(t) :
       e.ev = "send" => e.ws \notin e.unreg

\* a message was routed to another endpoint while some endpoint was accepted
\* but not yet registered
C8_Witness ==
  \E t \in Tasks : \E e \in Events(t) :
    e.ev = "send" /\ e.ws # t /\ e.unreg # {}

\* C9: a disconnect of an endpoint that was disconnected before changes
\* neither table and removes nothing, every device_disconnected event
\* follows the removal of that device, and on the tables of every reachable
\* state the later of register and disconnect decides.
C9_DisconnectIdempotent ==
  /\ \A t \in Tasks : \A i \in 1..Len(tr[t]) :
       /\ (tr[t][i].ev = "disconnect" /\ tr[t][i].again)
            => (tr[t][i].rem = << >> /\ tr[t][i].ok)
       /\ (tr[t][i].ev = "send" /\ tr[t][i].msg.action = "device_disconnected")
            => \E j \in 1..(i - 1) :
                 /\ tr[t][j].ev = "remove"
                 /\ tr[t][j].id = tr[t][i].msg.device_id
  /\ \A w \in WS :
       LET d1 == disconnect_lock(devices, unregistered, w)
           d2 == disconnect_lock(d1.devices, d1.unregistered, w)
           rd == register_lock(d1.devices, d1.unregistered, w, "pi-01", "pi",
                               EmptyDict, clock)
           r == register_lock(devices, unregistered, w, "pi-01", "pi",
                              EmptyDict, clock)
           dr == disconnect_lock(r.devices, r.unregistered, w)
       IN /\ d2.devices = d1.devices /\ d2.unregistered = d1.unregistered
          /\ d2.removed = << >>
          /\ Cardinality({ i \in 1..Len(rd.devices) : rd.devices[i].ws = w }) = 1
          /\ \A i \in 1..Len(dr.devices) : dr.devices[i].ws # w
          /\ w \notin dr.unregistered
          /\ dr.removed = << "pi-01" >>

\* disconnect ran a second time for an endpoint, with entries in the table
C9_Witness ==
  \E t \in Tasks : \E e \in Events(t) :
    e.ev = "disconnect" /\ e.again /\ devices # << >>

\* the sends of an event about device id that follow position i
Notified(t, i, action, id) ==
  { tr[t][j].ws : j \in { k \in (i + 1)..Len(tr[t]) :
                            /\ tr[t][k].ev = "send"
                            /\ tr[t][k].msg.action = action
                            /\ tr[t][k].msg.device_id = id } }

\* C10: when the operation that registered a pi, or removed a pi entry, is
\* over, the device_connected (device_disconnected) event naming the device
\* has been sent to every frontend entry that was in the registry then.
C10_PiEventsReachFrontends ==
  \A t \in Tasks : Idle(t) =>
    \A i \in 1..Len(tr[t]) :
      /\ (tr[t][i].ev = "register" /\ tr[t][i].role = "pi") =>
           { e.ws : e \in FrontendEntries(tr[t][i].reg) }
             \subseteq Notified(t, i, "device_connected", tr[t][i].id)
      /\ (tr[t][i].ev = "remove" /\ tr[t][i].role = "pi") =>
           { e.ws : e \in FrontendEntries(tr[t][i].reg) }
             \subseteq Notified(t, i, "device_disconnected", tr[t][i].id)

\* a pi registered while a frontend was there and was then disconnected by
\* force: both events were sent to the frontend
C10_Witness ==
  /\ Idle("w1") /\ Idle("h1")
  /\ \E i \in 1..Len(tr["w1"]) :
       /\ tr["w1"][i].ev = "register" /\ tr["w1"][i].role = "pi"
       /\ FrontendEntries(tr["w1"][i].reg) # {}
       /\ Notified("w1", i, "device_connected", "pi-01") # {}
  /\ \E i \in 1..Len(tr["h1"]) :
       /\ tr["h1"][i].ev = "remove" /\ tr["h1"][i].role = "pi"
       /\ FrontendEntries(tr["h1"][i].reg) # {}
       /\ Notified("h1", i, "device_disconnected", "pi-01") # {}

\* the positions in the observations of t where a fan-out took its snapshot
FanOuts(t) ==
  { i \in 1..Len(tr[t]) : tr[t][i].ev \in {"fanout", "emergency"} }

\* the positions after i of the sends of the fan-out's message to websocket w
FanOutSends(t, i, w) ==
  { j \in (i + 1)..Len(tr[t]) :
      /\ tr[t][j].ev = "send" /\ tr[t][j].ws = w
      /\ tr[t][j].msg = tr[t][i].msg }

\* the fan-out that task t is in: the latest snapshot among its observations
CurrentFanOut(t) ==
  { i \in FanOuts(t) : \A j \in FanOuts(t) : j <= i }

\* task t is suspended in a send of its current fan-out that has not failed:
\* the target is slow to take the message
SlowSend(t) ==
  /\ AtPc(t, {"await_send"})
  /\ tr[t][Len(tr[t])].ev = "send" /\ tr[t][Len(tr[t])].ok
  /\ \E i \in CurrentFanOut(t) : tr[t][Len(tr[t])].msg = tr[t][i].msg

\* C11 (as claimed): in a fan-out (to frontends, to pis or the emergency
\* broadcast) a target whose send is slow does not block delivery to the
\* others: while the send to one target of the snapshot has not completed,
\* every other target of the snapshot has the message sent to it.
C11_SlowTargetDoesNotBlock ==
  \A t \in Tasks : SlowSend(t) =>
    \A i \in CurrentFanOut(t) : \A k \in 1..Len(tr[t][i].conns) :
      FanOutSends(t, i, tr[t][i].conns[k]) # {}

\* What holds of a fan-out: when the operation that made it is over, the
\* message has been sent to every target of the fan-out's snapshot, whatever
\* happened to the sends to the others.
C11_FanOutReachesEveryTarget ==
  \A t \in Tasks : Idle(t) =>
    \A i \in FanOuts(t) : \A k \in 1..Len(tr[t][i].conns) :
      FanOutSends(t, i, tr[t][i].conns[k]) # {}

\* a message went to two frontends: the send to the first failed, the send
\* to the second was made after it and did not fail
C11_Witness ==
  \E t \in Tasks : \E i \in FanOuts(t) :
    /\ Idle(t)
    /\ tr[t][i].role = "frontend"
    /\ Len(tr[t][i].conns) = 2
    /\ \E j \in FanOutSends(t, i, tr[t][i].conns[1]) :
         /\ ~tr[t][j].ok
         /\ \E k \in FanOutSends(t, i, tr[t][i].conns[2]) :
              k > j /\ tr[t][k].ok

\* the sends among the observations of t that failed
FailedSends(t) == { e \in Events(t) : e.ev = "send" /\ ~e.ok }

\* C12: when an operation is over, no entry is bound to an endpoint a send
\* of the operation failed for, and the failure did not reach the caller: a
\* control request to all pis answers "sent", a control request to one
\* device whose send failed answers with the error of send_to_device
\* returning false, an emergency request reports the number of sends that
\* did not fail, a broadcast request answers "ok", and a handler whose own
\* sends did not fail goes on.
C12_FailedSendRemovesPeer ==
  \A t \in Tasks : (Idle(t) /\ tr[t] # << >>) =>
    /\ \A e \in FailedSends(t) : \A d \in Range(devices) : d.ws # e.ws
    /\ (t \in HTTP /\ stk[t] = << >>) =>
         \E r \in Events(t) :
           /\ r.ev = "response"
           /\ IF tr[t][1].pkt.route = "broadcast"
              THEN r.msg.status = "ok" /\ r.msg.error = None
              ELSE IF tr[t][1].pkt.type = "emergency_stop"
              THEN /\ r.msg.status = "emergency_sent"
                   /\ r.msg.reached = Cardinality({ e \in StopSends(t) : e.ok })
              ELSE IF tr[t][1].pkt.target = None
              THEN r.msg.status = "sent" /\ r.msg.error = None
              ELSE (FailedSends(t) # {}) => r.msg.error # None
    /\ (t \in WS /\ tr[t][1].ev = "frame"
        /\ \A e \in FailedSends(t) : e.ws # t) => stk[t] # << >>

\* a control request to pi-01 whose send failed was answered with an error,
\* while another entry stayed in the registry
C12_Witness ==
  \E h \in HTTP :
    /\ stk[h] = << >> /\ tr[h] # << >>
    /\ tr[h][1].pkt.target = "pi-01"
    /\ \E e \in FailedSends(h) : e.msg.action = "control"
    /\ \E r \in Events(h) : r.ev = "response" /\ r.msg.error # None
    /\ devices # << >>

\* the handler of w has finished a frame that came after its handshake
FrameDone(w) ==
  /\ Idle(w) /\ tr[w] # << >>
  /\ tr[w][1].ev = "frame" /\ tr[w][1].role \in {"pi", "frontend"}

\* the frame is not JSON, or is an object without an action
Malformed(pkt) == ~pkt.json \/ pkt.action = None

\* C13 (as claimed): a malformed frame after registration gets an error
\* reply to the sender, the handler stays in its receive loop without
\* disconnecting the sender, and no entry of another endpoint is changed.
C13_MalformedFrameReported ==
  \A w \in WS : (FrameDone(w) /\ Malformed(tr[w][1].pkt)) =>
    /\ \E i \in SendsTo(w, w) : tr[w][i].msg.error # None
    /\ \A e \in Events(w) : e.ev # "disconnect"
    /\ stk[w] # << >>
    /\ \A e \in Events(w) : e.ev = "touch" =>
         \A i \in 1..Len(e.reg) : e.reg[i].ws # w => e.reg2[i] = e.reg[i]

\* the handler of w has finished its handshake, whose frame was not JSON
MalformedHandshakeDone(w) ==
  /\ Idle(w) /\ tr[w] # << >>
  /\ tr[w][1].ev = "frame" /\ tr[w][1].role = "unknown"
  /\ ~tr[w][1].pkt.json

\* C14: after a handshake frame that is not JSON the endpoint is registered
\* as frontend "frontend-unknown" (an entry bound to it, no longer
\* unregistered), it was not disconnected, and its handler is in the
\* receive loop under that identity.
C14_MalformedHandshakeRegisters ==
  \A w \in WS : MalformedHandshakeDone(w) =>
    /\ \E e \in Events(w) :
         /\ e.ev = "register" /\ e.ws = w
         /\ e.id = "frontend-unknown" /\ e.role = "frontend"
         /\ \E d \in Range(e.reg) :
              d.ws = w /\ d.device_id = "frontend-unknown" /\ d.role = "frontend"
         /\ w \notin e.unreg
    /\ \A e \in Events(w) : e.ev # "disconnect"
    /\ AtPc(w, {"receive"})
    /\ stk[w][1].device_id = "frontend-unknown" /\ stk[w][1].role = "frontend"

\* an endpoint whose handshake was not JSON has had a later frame processed
\* and answered, and is still in the registry
C14_Witness ==
  \E w \in WS :
    /\ FrameDone(w)
    /\ stk[w] # << >> /\ stk[w][1].device_id = "frontend-unknown"
    /\ regBy["frontend-unknown"] = w
    /\ SendsTo(w, w) # {}
    /\ \E d \in Range(devices) : d.ws = w

\* the sends of a camera_frame among the observations of t
CameraSends(t) ==
  { e \in Events(t) : e.ev = "send" /\ e.msg.type = "camera_frame" }

\* C15 (as claimed): a camera_frame from a pi is sent to every frontend of
\* the snapshot with the payload of the frame and with 'from' equal to the
\* device id the sending endpoint is registered under.
C15_CameraFrameTaggedWithSender ==
  \A w \in WS :
    (/\ FrameDone(w) /\ tr[w][1].role = "pi" /\ stk[w] # << >>
     /\ tr[w][1].pkt.json
     /\ tr[w][1].pkt.action = "telemetry"
     /\ tr[w][1].pkt.type = "camera_frame") =>
      /\ \A d \in FrontendEntries(tr[w][1].reg) :
           \E e \in CameraSends(w) : e.ws = d.ws
      /\ \A e \in CameraSends(w) :
           /\ e.msg.payload = tr[w][1].pkt.payload
           /\ e.msg.from = stk[w][1].device_id

\* the frame task t is working on, or has finished, came from a registered pi
PiFrame(t) ==
  /\ tr[t] # << >>
  /\ tr[t][1].ev = "frame" /\ tr[t][1].role = "pi"

\* C16: while and after a frame from a pi is processed, whatever its action
\* and type, every send it causes to another endpoint goes to a frontend,
\* the only fan-outs are to frontends (a JSON frame is fanned out with its
\* action, type and payload), there is no emergency broadcast, and the only
\* message to the sender itself is an error.
C16_PiMessagesGoToFrontendsOnly ==
  \A t \in WS : PiFrame(t) =>
    /\ \A e \in Events(t) :
         /\ (e.ev = "send" /\ e.ws # t /\ stk[e.ws] # << >>)
              => stk[e.ws][1].role = "frontend"
         /\ (e.ev = "send" /\ e.ws = t) => e.msg.error # None
         /\ e.ev = "fanout" => e.role = "frontend"
         /\ e.ev # "emergency"
    /\ tr[t][1].pkt.json =>
         \E e \in Events(t) :
           /\ e.ev = "fanout"
           /\ e.msg.action = tr[t][1].pkt.action
           /\ e.msg.type = tr[t][1].pkt.type
           /\ e.msg.payload = tr[t][1].pkt.payload

\* a pi sent a control message naming pi-01 while pi-01 was registered on
\* another endpoint, and the frame was processed
C16_Witness ==
  \E t \in WS :
    /\ PiFrame(t) /\ Idle(t)
    /\ tr[t][1].pkt.action = "control" /\ tr[t][1].pkt.target = "pi-01"
    /\ \E d \in Range(tr[t][1].reg) : d.device_id = "pi-01" /\ d.ws # t
    /\ \E d \in Range(devices) : d.device_id = "pi-01" /\ d.ws # t

\* the frame matches no routing rule of a frontend
NoRule(pkt) ==
  /\ pkt.json
  /\ pkt.action \notin {"microphone_open", "microphone_close", "control"}

\* C17: a frame from a frontend that matches no routing rule causes exactly
\* one send, to the sender, carrying every field of the packet (its action,
\* type, device_id, role, target and payload), and no fan-out.
C17_UnmatchedFrontendFrameEchoed ==
  \A w \in WS :
    (FrameDone(w) /\ tr[w][1].role = "frontend" /\ NoRule(tr[w][1].pkt)) =>
      /\ Cardinality({ i \in 1..Len(tr[w]) : tr[w][i].ev = "send" }) = 1
      /\ \A e \in Events(w) :
           /\ e.ev \notin {"fanout", "emergency"}
           /\ e.ev = "send" =>
                /\ e.ws = w
                /\ e.msg.status = "echo"
                /\ e.msg.action = tr[w][1].pkt.action
                /\ e.msg.type = tr[w][1].pkt.type
                /\ e.msg.device_id = tr[w][1].pkt.device_id
                /\ e.msg.role = tr[w][1].pkt.role
                /\ e.msg.target = tr[w][1].pkt.target
                /\ e.msg.payload = tr[w][1].pkt.payload
                /\ e.msg = [M0 EXCEPT !.status = "echo",
                                      !.action = tr[w][1].pkt.action,
                                      !.type = tr[w][1].pkt.type,
                                      !.device_id = tr[w][1].pkt.device_id,
                                      !.role = tr[w][1].pkt.role,
                                      !.target = tr[w][1].pkt.target,
                                      !.payload = tr[w][1].pkt.payload]

\* a frontend sent a telemetry frame that names the role pi while another
\* endpoint was registered, and got its echo with that role
C17_Witness ==
  \E w \in WS :
    /\ FrameDone(w) /\ tr[w][1].role = "frontend"
    /\ tr[w][1].pkt.action = "telemetry" /\ tr[w][1].pkt.role = "pi"
    /\ Len(tr[w][1].reg) >= 2
    /\ \E e \in Events(w) :
         e.ev = "send" /\ e.msg.status = "echo" /\ e.msg.role = "pi"

MicTypes == {"microphone_open", "microphone_close"}

\* C18 (as claimed): a control message of type microphone_open or
\* microphone_close from a frontend that names no target is never answered
\* with a missing-target error, and when pi-01 is registered it is forwarded
\* to pi-01 and to nobody else.
C18_MicrophoneDefaultsToPrimary ==
  \A w \in WS :
    (/\ FrameDone(w) /\ tr[w][1].role = "frontend" /\ tr[w][1].pkt.json
     /\ \/ tr[w][1].pkt.action \in MicTypes
        \/ tr[w][1].pkt.action = "control" /\ tr[w][1].pkt.type \in MicTypes
     /\ TargetOf(tr[w][1].pkt) = None) =>
      /\ \A i \in SendsTo(w, w) :
           tr[w][i].msg.error \in {None, "target offline"}
      /\ Has(tr[w][1].reg, "pi-01") =>
           \E i \in SendsElsewhere(w, w) :
             /\ tr[w][i].ws = Lookup(tr[w][1].reg, "pi-01").ws
             /\ tr[w][i].msg.action = "control"
             /\ tr[w][i].msg.type \in MicTypes

\* C20 (as claimed): the update made on an inbound frame from endpoint w
\* creates no entry, sets last_seen and merges the payload into the
\* metadata of the entry bound to w, and leaves every other entry as it was.
C20_TouchUpdatesOwnEntryOnly ==
  \A w \in WS : \A i \in 1..Len(tr[w]) :
    tr[w][i].ev = "touch" =>
      /\ Len(tr[w][i].reg2) = Len(tr[w][i].reg)
      /\ \A k \in 1..Len(tr[w][i].reg) :
           IF tr[w][i].reg[k].ws = w
           THEN /\ tr[w][i].reg2[k].last_seen > tr[w][i].reg[k].last_seen
                /\ tr[w][i].reg2[k].meta =
                     DictUpdate(tr[w][i].reg[k].meta, tr[w][1].pkt.payload)
           ELSE tr[w][i].reg2[k] = tr[w][i].reg[k]

\* the handler of w has finished a request_route frame sent as a frontend
RouteDone(w) ==
  /\ FrameDone(w) /\ tr[w][1].role = "frontend" /\ tr[w][1].pkt.json
  /\ tr[w][1].pkt.action = "control" /\ tr[w][1].pkt.type = "request_route"

\* the table the request was planned against: after the update the frame made
RouteReg(w) == tr[w][2].reg2

\* target and destination of the request resolve and a map is loaded
RouteResolves(w) ==
  /\ TargetOf(tr[w][1].pkt) \in DeviceIds(RouteReg(w))
  /\ GoalPos(Get(tr[w][1].pkt.payload, "destination", NoDest)) # << >>
  /\ NAV_GRID # NoGrid

\* what the planner returns for the request
RoutePlan(w) ==
  plan_with_headings(
    NAV_GRID,
    StartPos(Lookup(RouteReg(w), TargetOf(tr[w][1].pkt)).meta,
             tr[w][1].pkt.payload),
    GoalPos(Get(tr[w][1].pkt.payload, "destination", NoDest)))

RouteFound(w) ==
  RouteResolves(w) /\ ~RoutePlan(w).raised /\ RoutePlan(w).waypoints # << >>

\* C19: for a request_route from a frontend, when the planner returns a
\* non-empty path an execute_route control message with the whole waypoint
\* list is sent to the target and an acknowledgement with the same list to
\* the caller; when target or destination do not resolve, no map is loaded,
\* the planner raises or finds no path, exactly one message, an error, is
\* sent to the caller and nothing to anybody else.
C19_RouteSentOrOneError ==
  \A w \in WS : RouteDone(w) =>
    IF RouteFound(w)
    THEN /\ \E i \in 1..Len(tr[w]) :
              /\ tr[w][i].ev = "send"
              /\ tr[w][i].ws = Lookup(RouteReg(w), TargetOf(tr[w][1].pkt)).ws
              /\ tr[w][i].msg.action = "control"
              /\ tr[w][i].msg.type = "execute_route"
              /\ tr[w][i].msg.waypoints = RoutePlan(w).waypoints
         /\ \E i \in SendsTo(w, w) :
              /\ tr[w][i].msg.status = "route_calculated"
              /\ tr[w][i].msg.waypoints = RoutePlan(w).waypoints
    ELSE /\ Cardinality(SendsTo(w, w)) = 1
         /\ \A i \in SendsTo(w, w) : tr[w][i].msg.error # None
         /\ SendsElsewhere(w, w) = {}

\* a frontend asked for a route to the kitchen for a registered car on a
\* loaded map, and a path of three waypoints went to the car and to the
\* caller
C19_Witness ==
  \E w \in WS :
    /\ RouteDone(w) /\ RouteFound(w)
    /\ Len(RoutePlan(w).waypoints) = 3
    /\ \E i \in SendsElsewhere(w, w) :
         tr[w][i].msg.type = "execute_route" /\ tr[w][i].ok
    /\ \E i \in SendsTo(w, w) : tr[w][i].msg.status = "route_calculated"

\* HTTP task h runs or has finished a clear-emergency request
ClearOp(h) ==
  /\ tr[h] # << >>
  /\ tr[h][1].ev = "request" /\ tr[h][1].pkt.action = "clear_emergency"

\* C21: a clear-emergency request with a device id sets the flag of that
\* entry to false and changes no other entry; without an id it sets every
\* flag to false and changes nothing else; with an id that is not registered
\* it leaves the table as it was; and in each case an emergency_cleared
\* notification has gone to every frontend of the table by the time the
\* request is answered.
C21_ClearEmergencyEffect ==
  \A h \in HTTP : ClearOp(h) =>
    /\ Len(tr[h]) >= 2 /\ tr[h][2].ev = "clear"
    /\ tr[h][2].reg = tr[h][1].reg
    /\ LET id == tr[h][1].pkt.device_id
           before == tr[h][2].reg
           after == tr[h][2].reg2
       IN /\ Len(after) = Len(before)
          /\ \A i \in 1..Len(before) :
               IF id = None \/ before[i].device_id = id
               THEN after[i] = [before[i] EXCEPT !.emergency = FALSE]
               ELSE after[i] = before[i]
    /\ \E i \in 1..Len(tr[h]) :
         /\ tr[h][i].ev = "fanout" /\ tr[h][i].role = "frontend"
         /\ tr[h][i].msg.action = "emergency_cleared"
         /\ Range(tr[h][i].conns) =
              { e.ws : e \in FrontendEntries(tr[h][2].reg2) }
         /\ stk[h] = << >> =>
              \A c \in Range(tr[h][i].conns) :
                \E j \in SendsTo(h, c) :
                  tr[h][j].msg.action = "emergency_cleared"

\* two flagged pis were registered and a finished clear request for pi-01
\* cleared its flag and left the other raised
C21_Witness ==
  \E h \in HTTP :
    /\ ClearOp(h) /\ stk[h] = << >> /\ tr[h][1].pkt.device_id = "pi-01"
    /\ \E i, j \in 1..Len(tr[h][2].reg) :
         /\ tr[h][2].reg[i].device_id = "pi-01" /\ tr[h][2].reg[i].emergency
         /\ ~tr[h][2].reg2[i].emergency
         /\ j # i /\ tr[h][2].reg[j].emergency /\ tr[h][2].reg2[j].emergency

\* HTTP task h runs or has finished a forced disconnect that names a device
ForceOp(h) ==
  /\ tr[h] # << >>
  /\ tr[h][1].ev = "request"
  /\ tr[h][1].pkt.action = "disconnect_device_route"
  /\ tr[h][1].pkt.device_id \notin {None, ""}

\* the calls of disconnect_device and its returns among the observations
ForceCalls(h) == { e \in Events(h) : e.ev = "force" }
ForceReturns(h) == { e \in Events(h) : e.ev = "forced" }

\* C22: disconnect_device(id) returns true exactly for an id registered at
\* the call; then the endpoint bound to id at the call is closed and no entry
\* references it when the call returns; for an id that is not registered it
\* returns false, the tables are as at the call and nothing was sent or
\* disconnected; and the HTTP operation answers ok in both cases.
C22_ForcedDisconnect ==
  \A h \in HTTP : ForceOp(h) =>
    /\ \A c \in ForceCalls(h) : \A r \in ForceReturns(h) :
         /\ c.id = tr[h][1].pkt.device_id /\ r.id = c.id
         /\ r.ok <=> c.id \in DeviceIds(c.reg)
         /\ r.ok =>
              /\ r.ws = Lookup(c.reg, c.id).ws
              /\ conn[r.ws] = "closed"
              /\ \A e \in Range(r.reg2) : e.ws # r.ws
              /\ r.ws \notin r.unreg
         /\ ~r.ok =>
              /\ r.reg2 = c.reg /\ r.unreg = c.unreg
              /\ \A e \in Events(h) : e.ev \notin {"send", "disconnect", "remove"}
    /\ stk[h] = << >> =>
         /\ ForceCalls(h) # {} /\ ForceReturns(h) # {}
         /\ tr[h][Len(tr[h])].ev = "response"
         /\ tr[h][Len(tr[h])].msg.status = "ok"

\* a forced disconnect of pi-01, registered next to another device, has
\* returned true and was answered
C22_Witness ==
  \E h \in HTTP :
    /\ ForceOp(h) /\ stk[h] = << >>
    /\ \E c \in ForceCalls(h) : Len(c.reg) >= 2 /\ c.reg[2].device_id = c.id
    /\ \E r \in ForceReturns(h) : r.ok /\ Len(r.reg2) >= 1

\* ------------------------------------------------- properties of the planner
\* astar has returned (possibly the empty path)
Returned == pl.pc \in {"returned", "done"}

\* cell n of grid g exists and is walkable, stated on rows and columns
Walkable(g, n) ==
  /\ n[1] \in 0..(Len(g) - 1) /\ n[2] \in 0..(Len(g[1]) - 1)
  /\ g[n[1] + 1][n[2] + 1] = 0

\* a and b are one step apart in one of the four directions
Adjacent(a, b) ==
  \/ a[1] = b[1] /\ (a[2] - b[2] = 1 \/ b[2] - a[2] = 1)
  \/ a[2] = b[2] /\ (a[1] - b[1] = 1 \/ b[1] - a[1] = 1)

Dist(a, b) ==
  (IF a[1] > b[1] THEN a[1] - b[1] ELSE b[1] - a[1])
  + (IF a[2] > b[2] THEN a[2] - b[2] ELSE b[2] - a[2])

\* C23: a non-empty path returned by astar starts at start, ends at goal,
\* moves one 4-connected step at a time over in-bounds walkable cells, and
\* has at least manhattan(start, goal) + 1 cells, exactly that many when the
\* grid has no wall.
C23_PathIsValid ==
  (Returned /\ pl.path # << >>) =>
    /\ pl.path[1] = pl.start
    /\ pl.path[Len(pl.path)] = pl.goal
    /\ \A i \in 1..(Len(pl.path) - 1) : Adjacent(pl.path[i], pl.path[i + 1])
    /\ \A i \in 1..Len(pl.path) : Walkable(pl.grid, pl.path[i])
    /\ Len(pl.path) >= Dist(pl.start, pl.goal) + 1
    /\ Walls(pl.grid) = 0 => Len(pl.path) = Dist(pl.start, pl.goal) + 1

\* astar returned a path that goes round a wall
C23_Witness ==
  /\ Returned /\ Len(pl.path) > Dist(pl.start, pl.goal) + 1
  /\ Walls(pl.grid) >= 1

\* the walkable cells one step from a cell of the set front
StepFrom(g, front) ==
  { n \in (0..(Len(g) - 1)) \X (0..(Len(g[1]) - 1)) :
      Walkable(g, n) /\ \E m \in front : Adjacent(m, n) }

RECURSIVE Bfs(_, _, _, _, _)
\* breadth-first search: the least number of steps from a cell of front to
\* goal, d steps being made already; -1 when there is none
Bfs(g, front, seen, goal, d) ==
  IF goal \in front THEN d
  ELSE IF front = {} THEN 0 - 1
  ELSE Bfs(g, StepFrom(g, front) \ seen, seen \cup StepFrom(g, front), goal,
           d + 1)

\* the shortest step count from start to goal over walkable cells
Shortest(g, start, goal) == Bfs(g, {start}, {start}, goal, 0)

Cross3 == << << 0, 0, 0 >>, << 0, 1, 0 >>, << 0, 0, 0 >> >>

\* C24: when some walkable route joins the walkable cells start and goal,
\* the path astar returns has the breadth-first shortest step count plus one
\* cells: one cell for start = goal, two for adjacent cells whatever the
\* walls, five on the grid 000/010/000 from (0,0) to (2,2).
C24_PathIsShortest ==
  (/\ Returned /\ Walkable(pl.grid, pl.start) /\ Walkable(pl.grid, pl.goal)
   /\ Shortest(pl.grid, pl.start, pl.goal) >= 0) =>
    /\ Len(pl.path) = Shortest(pl.grid, pl.start, pl.goal) + 1
    /\ pl.start = pl.goal => pl.path = << pl.start >>
    /\ Adjacent(pl.start, pl.goal) => pl.path = << pl.start, pl.goal >>
    /\ (pl.grid = Cross3 /\ pl.start = << 0, 0 >> /\ pl.goal = << 2, 2 >>) =>
         Len(pl.path) = 5

\* astar returned five cells on the grid 000/010/000 from (0,0) to (2,2)
C24_Witness ==
  /\ Returned /\ pl.grid = Cross3
  /\ pl.start = << 0, 0 >> /\ pl.goal = << 2, 2 >> /\ Len(pl.path) = 5

\* the search loop of astar is running or has returned
Searching == pl.pc \in {"search", "returned", "done"}

\* C25: astar is deterministic: the run returns the path the function has
\* for its arguments, and at every point of the search the frontier holds no
\* two entries with the same counter, every counter is at most the count of
\* pushes made, so that the order of two entries is decided by f and the
\* counter and never by the cells.
C25_Deterministic ==
  /\ Searching =>
       /\ \A a, b \in pl.st.open_heap : a[2] = b[2] => a = b
       /\ \A a \in pl.st.open_heap : 0 <= a[2] /\ a[2] <= pl.st.counter
  /\ Returned => pl.path = astar(pl.grid, pl.start, pl.goal).path

\* the frontier holds two entries of equal f, told apart by their counters
C25_Witness ==
  /\ pl.pc = "search"
  /\ \E a, b \in pl.st.open_heap : a[1] = b[1] /\ a[2] < b[2] /\ a[3] # b[3]

\* cell n lies outside grid g
Outside(g, n) ==
  n[1] < 0 \/ n[1] >= Len(g) \/ n[2] < 0 \/ n[2] >= Len(g[1])

\* cell n lies inside grid g on a wall
OnWall(g, n) == ~Outside(g, n) /\ g[n[1] + 1][n[2] + 1] = 1

BoundsErrors == {"Start node out of grid bounds", "Goal node out of grid bounds"}
WallErrors == {"Start node is not walkable", "Goal node is not walkable"}

\* C26: when start or goal is out of bounds or on a wall, astar raises and
\* returns no path, it raises in no other case, and the error names the
\* cause: an out-of-bounds error only for a node outside the grid, a
\* not-walkable error only for a node on a wall, the two being different.
C26_InvalidNodeRaises ==
  pl.pc # "call" =>
    /\ (pl.pc = "raised") <=>
         (\/ Outside(pl.grid, pl.start) \/ Outside(pl.grid, pl.goal)
          \/ OnWall(pl.grid, pl.start) \/ OnWall(pl.grid, pl.goal))
    /\ pl.pc = "raised" =>
         /\ pl.path = << >> /\ pl.waypoints = << >>
         /\ pl.error \in BoundsErrors \cup WallErrors
         /\ pl.error = "Start node out of grid bounds" =>
              Outside(pl.grid, pl.start)
         /\ pl.error = "Goal node out of grid bounds" =>
              Outside(pl.grid, pl.goal)
         /\ pl.error = "Start node is not walkable" =>
              OnWall(pl.grid, pl.start)
         /\ pl.error = "Goal node is not walkable" =>
              OnWall(pl.grid, pl.goal)
         /\ (Outside(pl.grid, pl.start) \/ Outside(pl.grid, pl.goal)) =>
              pl.error \in BoundsErrors
    /\ BoundsErrors \cap WallErrors = {}

\* astar raised for a goal on a wall with the start walkable
C26_Witness ==
  /\ pl.pc = "raised" /\ pl.error = "Goal node is not walkable"
  /\ Walkable(pl.grid, pl.start) /\ OnWall(pl.grid, pl.goal)

\* C27: when start and goal are in bounds and walkable and no walkable route
\* joins them, astar does not raise and returns the empty path, and
\* plan_with_headings returns the empty list of waypoints.
C27_NoRouteGivesEmptyPath ==
  (/\ pl.pc # "call"
   /\ Walkable(pl.grid, pl.start) /\ Walkable(pl.grid, pl.goal)
   /\ Shortest(pl.grid, pl.start, pl.goal) < 0) =>
    /\ pl.pc # "raised"
    /\ Returned => pl.path = << >>
    /\ pl.pc = "done" => pl.waypoints = << >>

\* plan_with_headings is over for two walkable cells that walls separate
C27_Witness ==
  /\ pl.pc = "done" /\ pl.path = << >> /\ pl.waypoints = << >>
  /\ Walkable(pl.grid, pl.start) /\ Walkable(pl.grid, pl.goal)
  /\ pl.st.closed # {}

\* the direction of the step from cell a to cell b
StepHeading(a, b) ==
  IF b[1] = a[1] - 1 /\ b[2] = a[2] THEN "N"
  ELSE IF b[1] = a[1] + 1 /\ b[2] = a[2] THEN "S"
  ELSE IF b[1] = a[1] /\ b[2] = a[2] - 1 THEN "W"
  ELSE IF b[1] = a[1] /\ b[2] = a[2] + 1 THEN "E"
  ELSE "?"

\* C28: waypoints_with_headings returns one waypoint per cell of the path,
\* in order and with the cell's row and column; the heading of every
\* waypoint but the last is the direction of the step to the next cell, the
\* last repeats the heading before it, and a one-cell path gets E.
C28_HeadingsFollowPath ==
  pl.pc = "done" =>
    /\ Len(pl.waypoints) = Len(pl.path)
    /\ \A i \in 1..Len(pl.path) :
         /\ pl.waypoints[i].row = pl.path[i][1]
         /\ pl.waypoints[i].col = pl.path[i][2]
         /\ i < Len(pl.path) =>
              pl.waypoints[i].heading = StepHeading(pl.path[i], pl.path[i + 1])
    /\ Len(pl.path) >= 2 =>
         pl.waypoints[Len(pl.path)].heading =
           pl.waypoints[Len(pl.path) - 1].heading
    /\ Len(pl.path) = 1 => pl.waypoints[1].heading = "E"

\* a path that goes north and then west got its headings
C28_Witness ==
  /\ pl.pc = "done" /\ Len(pl.waypoints) >= 3
  /\ \E i \in 1..(Len(pl.waypoints) - 2) :
       pl.waypoints[i].heading = "N" /\ pl.waypoints[i + 1].heading = "W"
  /\ pl.waypoints[Len(pl.waypoints)].heading = "W"

\* ----------------------------------------------------- properties of the lock
\* the places that copy the endpoints a message is then sent to
SendSites == {"broadcast_to_frontends", "broadcast_to_pis", "broadcast_json",
              "emergency_broadcast_to_pis", "send_to_device"}

\* C29: no task is suspended while the registry lock is held and no send is
\* made while it is held: every fan-out and targeted send reads its targets
\* inside the lock block and sends after leaving it, so no task ever finds
\* the lock taken.
C29_NoSendUnderLock ==
  /\ ~lock
  /\ \A t \in Tasks :
       /\ \A e \in Events(t) :
            /\ e.ev = "send" => ~e.locked
            /\ e.ev # "blocked"
       /\ \A a \in acc[t] : a.site \in SendSites => a.locked

\* a fan-out of one task is suspended in a send while another task, having
\* read its targets under the lock, is suspended in a send of its own, and
\* one of the two sends is broken
C29_Witness ==
  \E t, u \in Tasks :
    /\ t # u
    /\ AtPc(t, {"await_send"}) /\ AtPc(u, {"await_send"})
    /\ \E a \in acc[t] : a.site \in SendSites /\ a.locked
    /\ \E a \in acc[u] : a.site \in SendSites /\ a.locked
    /\ ~stk[t][Len(stk[t])].ok

\* C30 (as claimed): every read and every write of the tables, the lookup of
\* the target and its metadata by request_route included, is made while the
\* registry lock is held.
C30_EveryAccessUnderLock ==
  \A t \in Tasks : \A a \in acc[t] : a.locked

\* the cells expanded so far
ExpandedNodes == { pl.st.expanded[i].node : i \in 1..Len(pl.st.expanded) }

\* C31: during astar each cell is expanded at most once: the expanded cells
\* are distinct and are exactly the closed set, a popped entry of a closed
\* cell is skipped, no entry of a closed cell in the frontier was pushed
\* after the cell was expanded, and the g value a cell has when it is
\* expanded is its breadth-first distance from start.
C31_ExpandedOnce ==
  Searching =>
    /\ \A i, j \in 1..Len(pl.st.expanded) :
         pl.st.expanded[i].node = pl.st.expanded[j].node => i = j
    /\ ExpandedNodes = pl.st.closed
    /\ \A i \in 1..Len(pl.st.skipped) : pl.st.skipped[i] \in pl.st.closed
    /\ \A e \in pl.st.open_heap : \A i \in 1..Len(pl.st.expanded) :
         e[3] = pl.st.expanded[i].node => e[2] <= pl.st.expanded[i].counter
    /\ \A i \in 1..Len(pl.st.expanded) :
         pl.st.expanded[i].g
           = Shortest(pl.grid, pl.start, pl.st.expanded[i].node)

\* a stale entry of a cell expanded before was popped and skipped
C31_Witness ==
  /\ Searching
  /\ pl.st.skipped # << >>
  /\ \E i \in 1..Len(pl.st.expanded) :
       pl.st.expanded[i].node = pl.st.skipped[1] /\ pl.st.expanded[i].g >= 2

\* the last operation of endpoint w was an emergency_ack of a pi, handled up
\* to the clearing of the flag
AckOp(w) ==
  /\ tr[w] # << >>
  /\ tr[w][1].ev = "frame"
  /\ tr[w][1].role = "pi"
  /\ tr[w][1].pkt.type = "emergency_ack"
  /\ \E c \in Events(w) : c.ev = "clear"

\* C32 (as claimed): when an emergency broadcast has sent emergency_stop to
\* the endpoint of a pi, the pi's emergency_ack arrived after that send, and
\* both the broadcast and the handling of the ack have finished, the entry of
\* that endpoint has its emergency flag false.
C32_AckAfterStopLeavesFlagFalse ==
  \A t \in Tasks : \A w \in WS :
    (/\ Idle(t) /\ IsEmergencyOp(t)
     /\ Idle(w) /\ AckOp(w)
     /\ \E s \in StopSends(t) : s.ws = w /\ s.ok /\ s.at < tr[w][1].at) =>
      \A d \in Range(devices) : d.ws = w => ~d.emergency

\* the places in the observations of endpoint w where its handler left the
\* loop while the entry of the device_id it had registered was bound to
\* another endpoint
Evicted(w) ==
  { i \in 1..Len(tr[w]) :
      /\ tr[w][i].ev = "handler_end"
      /\ tr[w][i].id # None
      /\ \E e \in Range(tr[w][i].reg) :
           e.device_id = tr[w][i].id /\ e.ws # w }

\* C33: after endpoint B registered a device_id that endpoint A held, the
\* disconnect of A by its handler (remote close or error) removes no entry,
\* leaves the table as it was, with the entry of that id bound to B, and
\* sends no device_disconnected event.
C33_EvictedDisconnectRemovesNothing ==
  \A w \in WS : \A i \in Evicted(w) :
    /\ i < Len(tr[w])
    /\ tr[w][i + 1].ev = "disconnect" /\ tr[w][i + 1].ws = w
    /\ tr[w][i + 1].rem = << >>
    /\ tr[w][i + 1].reg2 = tr[w][i].reg
    /\ \E e \in Range(tr[w][i + 1].reg2) :
         e.device_id = tr[w][i].id /\ e.ws # w
    /\ \A j \in (i + 1)..Len(tr[w]) :
         /\ tr[w][j].ev # "remove"
         /\ tr[w][j].ev = "send" => tr[w][j].msg.action # "device_disconnected"

\* the handler of an evicted pi ended, and the entry of its device_id is
\* still bound to the endpoint that replaced it
C33_Witness ==
  \E w \in WS : \E i \in Evicted(w) :
    /\ stk[w] = << >>
    /\ tr[w][i].role = "pi"
    /\ \E e \in Range(devices) : e.device_id = tr[w][i].id /\ e.ws # w

\* the handler of endpoint w has ended
Ended(w) == conn[w] # "new" /\ stk[w] = << >>

\* endpoint w is in neither table
Gone(w) ==
  /\ w \notin unregistered
  /\ \A e \in Range(devices) : e.ws # w

\* C34: when the handler of an endpoint has ended, for whatever reason, the
\* endpoint is in neither the unregistered set nor any entry, and an
\* endpoint disconnect() has run for is in neither from then on, also while
\* its handler is still running.
C34_DisconnectedIsTerminal ==
  \A w \in WS :
    /\ Ended(w) => (Gone(w) /\ w \in discDone /\ conn[w] = "closed")
    /\ w \in discDone => Gone(w)

\* a handler ended on a frame that is no JSON object while the endpoint was
\* registered, and another ended before its handshake
C34_Witness ==
  \E w, v \in WS :
    /\ Ended(w)
    /\ \E i \in 1..Len(tr[w]) :
         /\ tr[w][i].ev = "handler_end" /\ tr[w][i].id # None
         /\ \E e \in Range(tr[w][i].reg) : e.ws = w
    /\ tr[w][1].ev = "frame" /\ ~tr[w][1].pkt.object
    /\ Ended(v)
    /\ \E i \in 1..Len(tr[v]) :
         tr[v][i].ev = "handler_end" /\ tr[v][i].id = None

\* C35 (as claimed): device_disconnected is emitted only for a removed entry
\* of role pi: after the removal of an entry of another role no
\* device_disconnected event naming it is sent.
C35_DisconnectedEventOnlyForPi ==
  \A t \in Tasks : \A j \in 1..Len(tr[t]) :
    (tr[t][j].ev = "remove" /\ tr[t][j].role # "pi") =>
      \A i \in (j + 1)..Len(tr[t]) :
        ~(/\ tr[t][i].ev = "send"
          /\ tr[t][i].msg.action = "device_disconnected"
          /\ tr[t][i].msg.device_id = tr[t][j].id)

\* every task is between operations
Quiet == \A t \in Tasks : Idle(t)

\* C36 (as claimed): when every operation has finished, no registered
\* frontend has device_connected as the latest device event handed to it for
\* a device_id that is not registered.
C36_ConnectedNeverLast ==
  Quiet =>
    \A p \in lastConnected :
      (\E e \in Range(devices) : e.ws = p[1] /\ e.role = "frontend") =>
        Has(devices, p[2])

\* the calls of disconnect in progress in task t
Disconnecting(t) == { i \in 1..Len(stk[t]) : stk[t][i].fn = "disconnect" }

\* C37: with no registration arriving, every call of broadcast_to_frontends
\* or disconnect terminates whatever endpoints fail: a disconnect that
\* broadcasts has removed an entry, so no task ever has more calls of
\* disconnect in progress than there are endpoints, and every task is
\* between operations again and again.
C37_FanOutTerminates ==
  /\ [](\A t \in Tasks :
         /\ Cardinality(Disconnecting(t)) <= Cardinality(WS)
         /\ \A i \in Disconnecting(t) :
              stk[t][i].list # << >> =>
                \A e \in Range(devices) :
                  e.ws # stk[t][i].ws /\ e.device_id # Head(stk[t][i].list))
  /\ \A t \in Tasks : []<>Idle(t)

\* a broadcast whose sends to both frontends failed has returned: the
\* disconnect of the first frontend broadcast again, and that broadcast
\* disconnected the second
C37_Witness ==
  \E t \in Tasks :
    /\ stk[t] = << >>
    /\ Cardinality({ i \in 1..Len(tr[t]) : tr[t][i].ev = "remove" }) = 2
    /\ Cardinality({ i \in 1..Len(tr[t]) : tr[t][i].ev = "fanout" }) >= 3
    /\ devices = << >>

\* C38 (as claimed): in every reachable state an entry whose emergency flag
\* is true has role pi.
C38_FlagOnlyOnPiEntries ==
  \A d \in Range(devices) : d.emergency => d.role = "pi"

\* C39 (as claimed): a route_calculated acknowledgement is sent to the caller
\* of request_route only after an execute_route message was delivered to the
\* target: the send of it made earlier in the same operation did not fail.
C39_AckOnlyAfterDelivery ==
  \A w \in WS : \A i \in SendsTo(w, w) :
    tr[w][i].msg.status = "route_calculated" =>
      \E j \in 1..(i - 1) :
        /\ tr[w][j].ev = "send"
        /\ tr[w][j].msg.type = "execute_route"
        /\ tr[w][j].ok

\* endpoint w has finished a non-emergency control frame sent as a frontend
\* whose single target was the device_id of a frontend entry at that time
FrontendTargetFrame(w) ==
  /\ Idle(w) /\ tr[w] # << >>
  /\ tr[w][1].ev = "frame" /\ tr[w][1].role = "frontend"
  /\ tr[w][1].pkt.json /\ tr[w][1].pkt.action = "control"
  /\ tr[w][1].pkt.type # "emergency_stop"
  /\ ~Get(tr[w][1].pkt.payload, "broadcast", FALSE)
  /\ \E e \in FrontendEntries(tr[w][1].reg) :
       e.device_id = TargetOf(tr[w][1].pkt)

\* HTTP task h has finished a non-emergency control request whose target
\* was the device_id of a frontend entry
FrontendTargetRequest(h) ==
  /\ stk[h] = << >> /\ tr[h] # << >>
  /\ tr[h][1].ev = "request" /\ tr[h][1].pkt.action = "http_control"
  /\ tr[h][1].pkt.type # "emergency_stop"
  /\ \E e \in FrontendEntries(tr[h][1].reg) :
       e.device_id = tr[h][1].pkt.target

\* C40 (as claimed): a control message routed to a single named target whose
\* id belongs to a frontend entry, the sender's own id included, is not
\* forwarded to that frontend: the sender gets one error reply and nothing is
\* sent to anybody else; over HTTP the result is an error and nothing is
\* sent.
C40_ControlNeverToFrontend ==
  /\ \A w \in WS : FrontendTargetFrame(w) =>
       /\ Cardinality(SendsTo(w, w)) = 1
       /\ \A i \in SendsTo(w, w) : tr[w][i].msg.error # None
       /\ SendsElsewhere(w, w) = {}
  /\ \A h \in HTTP : FrontendTargetRequest(h) => ErrorResultNothingForwarded(h)

====
